---- MODULE Spec2Model ----
(***************************************************************************)
(* Hearings AI: the access policy (api/src/auth), the search filter        *)
(* construction (api/src/search/service.py) and the chunker                *)
(* (scripts/ingest-documents.py).                                          *)
(*                                                                         *)
(* Text is a sequence of words.  The single quote character is the word    *)
(* "Q"; every other word is an opaque run of non-quote characters.  An     *)
(* OData filter string is the sequence of its words, so that an f-string   *)
(* interpolation is a concatenation and the backend's reading of the       *)
(* string (quotes delimit literals, '' is an escaped quote) is computed    *)
(* from the rendered text, not assumed.                                    *)
(***************************************************************************)
EXTENDS Integers, Sequences, FiniteSets, TLC

VARIABLES
    mode,             \* which subsystem this behaviour exercises
    op,               \* the last operation that ran
    user_claims,      \* UserClaims: [roles, party_affiliation]
    document,         \* DocumentMetadata: [confidentiality_level, parties]
    access,           \* the value can_access_document returned
    security_filter,  \* the value build_search_filter returned (Optional[str])
    response,         \* outcome of the access_checker dependency
    index,            \* the search index: the set of indexed chunks' fields
    request,          \* SearchRequest: [proceeding_id, filters]
    final_filter,     \* the `filter` argument handed to SearchClient.search
    search_response,  \* what /api/search produced: [status, hits]
    chunk_size,       \* chunk_text argument
    cpc,              \* chunk_text position: "para", "sent" or "done"
    page_num,         \* chunk_text local page_num (0 before the first page)
    sentences,        \* sentences of the oversized paragraph still to visit
    current_chunk,    \* chunk_text local: list of texts
    current_tokens,   \* chunk_text local
    current_page,     \* chunk_text local
    chunk_id,         \* chunk_text local
    chunks,           \* chunk_text local: the chunks emitted so far
    source,           \* the sentences of the pages read so far, in order
    pdf_files,        \* main: the PDFs of the documents directory, in glob order
    file_idx,         \* main: how many of pdf_files the loop has taken
    ipc,              \* position inside main / process_document
    uuids,            \* how many uuid4 values have been drawn so far
    document_id,      \* process_document local
    pages,            \* process_document local: len(pages)
    n_chunks,         \* process_document local: len(chunks)
    embeddings,       \* generate_embeddings local: len(embeddings)
    uploaded,         \* index_chunks: how many documents have been sent up
    indexed,          \* index_chunks local
    embed_calls,      \* embeddings.create calls made for the current document
    upload_calls,     \* upload_documents calls made for the current document
    meta_writes,      \* upsert_item calls that wrote for the current document
    cosmos,           \* the metadata store: the set of stored items
    results,          \* main local: the list of result dicts
    search_kwargs,    \* the keyword arguments of the SearchClient.search call
    outcome,          \* how the two remote calls of search_documents ended
    content,          \* highlight_snippet argument
    max_length,       \* highlight_snippet argument
    snippet,          \* the value highlight_snippet returned
    citation_in,      \* the arguments of format_citation_ref
    citation_ref,     \* the value format_citation_ref returned
    doc_text,         \* extract_regulatory_citations argument
    citations,        \* the value extract_regulatory_citations returned, as a set
    marker_text,      \* extract_paragraph_numbers argument
    marker_list,      \* the value extract_paragraph_numbers returned
    environ,          \* os.environ: [DEMO_ROLE, ENVIRONMENT]
    auth_request,     \* what get_current_user reads of the request
    current_user,     \* how get_current_user ended
    metadata          \* the metadata dict process_document hands to index_chunks

accessVars == <<user_claims, document, access, security_filter, response>>

searchVars == <<index, request, final_filter, search_response>>

chunkVars == <<chunk_size, cpc, page_num, sentences, current_chunk, current_tokens,
               current_page, chunk_id, chunks, source>>

ingestVars == <<pdf_files, file_idx, ipc, uuids, document_id, pages, n_chunks,
                embeddings, uploaded, indexed, embed_calls, upload_calls, meta_writes,
                cosmos, results>>

queryVars == <<search_kwargs, outcome>>

textVars == <<content, max_length, snippet, citation_in, citation_ref, doc_text,
              citations>>

markerVars == <<marker_text, marker_list>>

authVars == <<environ, auth_request, current_user>>

extraVars == <<markerVars, authVars, metadata>>

restVars == <<ingestVars, queryVars, textVars, extraVars>>

vars == <<mode, op, accessVars, searchVars, chunkVars, restVars>>

----------------------------------------------------------------------------
(* Optional values: None is the empty sequence, a present value v is <<v>>. *)

None == <<>>

Some(v) == <<v>>

\* Python truthiness of an Optional[str]: None and "" are both falsy.
Truthy(opt) == opt # None /\ opt[1] # <<>>

----------------------------------------------------------------------------
(* Bounds and input domains. *)

MaxNameLen == 2

MaxParties == 2

NameChars == {"a", "Q"}

Names == UNION {[1..n -> NameChars] : n \in 0..MaxNameLen}

Roles == {"Hearing_Panel", "Staff", "Intervener"}

Levels == {"public", "protected_a", "confidential"}

Rosters == {r \in SUBSET Names : Cardinality(r) <= MaxParties}

ClaimsDomain ==
    [roles : SUBSET Roles, party_affiliation : {None} \cup {Some(n) : n \in Names}]

DocumentDomain == [confidentiality_level : Levels, parties : Rosters]

----------------------------------------------------------------------------
(* auth/__init__.py: can_access_document *)

\* mutant: Staff is let through to confidential documents
CanAccessStaffSeesConfidential(claims, doc) ==
    LET level == doc.confidentiality_level IN
    IF level = "public" THEN TRUE
    ELSE IF level = "protected_a" THEN
        \/ "Staff" \in claims.roles \/ "Hearing_Panel" \in claims.roles
        \/ Truthy(claims.party_affiliation) /\ claims.party_affiliation[1] \in doc.parties
    ELSE IF level = "confidential" THEN
        "Hearing_Panel" \in claims.roles \/ "Staff" \in claims.roles
    ELSE FALSE

\* mutant: the own-party rule asks for the Intervener role
CanAccessPartyNeedsIntervener(claims, doc) ==
    LET level == doc.confidentiality_level IN
    IF level = "public" THEN TRUE
    ELSE IF level = "protected_a" THEN
        \/ "Staff" \in claims.roles \/ "Hearing_Panel" \in claims.roles
        \/ /\ "Intervener" \in claims.roles
           /\ Truthy(claims.party_affiliation)
           /\ claims.party_affiliation[1] \in doc.parties
    ELSE IF level = "confidential" THEN "Hearing_Panel" \in claims.roles
    ELSE FALSE

\* mutant: the protected_a rule forgets the Hearing_Panel role
CanAccessPanelForgotten(claims, doc) ==
    LET level == doc.confidentiality_level IN
    IF level = "public" THEN TRUE
    ELSE IF level = "protected_a" THEN
        \/ "Staff" \in claims.roles
        \/ Truthy(claims.party_affiliation) /\ claims.party_affiliation[1] \in doc.parties
    ELSE IF level = "confidential" THEN "Hearing_Panel" \in claims.roles
    ELSE FALSE

CanAccessDocument(claims, doc) ==
    LET level == doc.confidentiality_level IN
    IF level = "public" THEN TRUE
    ELSE IF level = "protected_a" THEN
        IF "Staff" \in claims.roles \/ "Hearing_Panel" \in claims.roles THEN TRUE
        ELSE IF Truthy(claims.party_affiliation)
                /\ claims.party_affiliation[1] \in doc.parties THEN TRUE
        ELSE FALSE
    ELSE IF level = "confidential" THEN "Hearing_Panel" \in claims.roles
    ELSE FALSE

----------------------------------------------------------------------------
(* auth/__init__.py: build_search_filter *)

RECURSIVE JoinWith(_, _)
\* sep.join(parts) for a non-empty list of word sequences
JoinWith(sep, parts) ==
    IF Len(parts) = 1 THEN parts[1]
    ELSE parts[1] \o <<sep>> \o JoinWith(sep, Tail(parts))

NotConfidentialFilter == <<"confidentialityLevel", "ne", "Q", "confidential", "Q">>

PublicOnlyFilter == <<"confidentialityLevel", "eq", "Q", "public", "Q">>

\* f"(confidentialityLevel eq 'public' or parties/any(p: p eq '{affiliation}'))"
PartyFilter(affiliation) ==
    <<"(", "confidentialityLevel", "eq", "Q", "public", "Q", "or",
      "parties/any(p:", "p", "eq", "Q">> \o affiliation \o <<"Q", ")", ")">>

\* mutant: the public-only default of the else branch is not appended
SecurityFilterPartsNoDefault(claims) ==
    (IF "Hearing_Panel" \notin claims.roles THEN <<NotConfidentialFilter>> ELSE <<>>)
    \o (IF "Staff" \notin claims.roles /\ "Hearing_Panel" \notin claims.roles
           /\ Truthy(claims.party_affiliation)
        THEN <<PartyFilter(claims.party_affiliation[1])>>
        ELSE <<>>)

SecurityFilterParts(claims) ==
    (IF "Hearing_Panel" \notin claims.roles THEN <<NotConfidentialFilter>> ELSE <<>>)
    \o (IF "Staff" \notin claims.roles /\ "Hearing_Panel" \notin claims.roles
        THEN IF Truthy(claims.party_affiliation)
             THEN <<PartyFilter(claims.party_affiliation[1])>>
             ELSE <<PublicOnlyFilter>>
        ELSE <<>>)

BuildSearchFilter(claims) ==
    LET filters == SecurityFilterParts(claims) IN
    IF filters # <<>> THEN Some(JoinWith("and", filters)) ELSE None

----------------------------------------------------------------------------
(* The retrieval backend's reading of a filter string (the `filter`        *)
(* argument of SearchClient.search): OData lexing, then evaluation with    *)
(* `and` binding tighter than `or`.  An indexed chunk d carries the fields *)
(* index_chunks writes: confidentialityLevel, parties, documentType,       *)
(* proceedingId, regulatoryCitations.                                      *)

\* position of the first quote at or after i, 0 when there is none
NextQuote(s, i) ==
    LET qs == {j \in i..Len(s) : s[j] = "Q"} IN
    IF qs = {} THEN 0 ELSE CHOOSE j \in qs : \A k \in qs : j <= k

\* the words of a run outside any literal, one symbol each
Symbols(seg) == [k \in 1..Len(seg) |-> [lit |-> FALSE, v |-> <<seg[k]>>]]

RECURSIVE LexFrom(_, _, _), LexLiteral(_, _, _, _)
\* outside a literal: words up to the next quote are symbols, the quote opens
\* a literal
LexFrom(s, i, out) ==
    LET q == NextQuote(s, i) IN
    IF q = 0 THEN [ok |-> TRUE, toks |-> out \o Symbols(SubSeq(s, i, Len(s)))]
    ELSE LexLiteral(s, q + 1, <<>>, out \o Symbols(SubSeq(s, i, q - 1)))

\* inside a literal: '' is one quote character, a lone quote closes it, and
\* the end of the text before a closing quote is an error
LexLiteral(s, i, cur, out) ==
    LET q == NextQuote(s, i) IN
    IF q = 0 THEN [ok |-> FALSE, toks |-> <<>>]
    ELSE IF q + 1 <= Len(s) /\ s[q + 1] = "Q"
    THEN LexLiteral(s, q + 2, cur \o SubSeq(s, i, q - 1) \o <<"Q">>, out)
    ELSE LexFrom(s, q + 1, Append(out, [lit |-> TRUE, v |-> cur \o SubSeq(s, i, q - 1)]))

IsSym(t, i, w) == i <= Len(t) /\ ~t[i].lit /\ t[i].v = <<w>>

IsLit(t, i) == i <= Len(t) /\ t[i].lit

ParseFail == [ok |-> FALSE, val |-> FALSE, pos |-> 0]

ScalarFields == {"confidentialityLevel", "documentType", "proceedingId"}

FieldValue(d, f) ==
    IF f = "confidentialityLevel" THEN <<d.confidentialityLevel>>
    ELSE IF f = "documentType" THEN <<d.documentType>>
    ELSE d.proceedingId

RECURSIVE ParseOr(_, _, _), OrTail(_, _, _), ParseAnd(_, _, _), AndTail(_, _, _),
          ParsePrim(_, _, _)
ParseOr(t, i, d) ==
    LET a == ParseAnd(t, i, d) IN IF a.ok THEN OrTail(t, a, d) ELSE a

OrTail(t, a, d) ==
    IF IsSym(t, a.pos, "or") THEN
        LET b == ParseAnd(t, a.pos + 1, d) IN
        IF b.ok THEN OrTail(t, [ok |-> TRUE, val |-> a.val \/ b.val, pos |-> b.pos], d)
        ELSE b
    ELSE a

ParseAnd(t, i, d) ==
    LET a == ParsePrim(t, i, d) IN IF a.ok THEN AndTail(t, a, d) ELSE a

AndTail(t, a, d) ==
    IF IsSym(t, a.pos, "and") THEN
        LET b == ParsePrim(t, a.pos + 1, d) IN
        IF b.ok THEN AndTail(t, [ok |-> TRUE, val |-> a.val /\ b.val, pos |-> b.pos], d)
        ELSE b
    ELSE a

ParsePrim(t, i, d) ==
    IF IsSym(t, i, "(") THEN
        LET a == ParseOr(t, i + 1, d) IN
        IF a.ok /\ IsSym(t, a.pos, ")") THEN [a EXCEPT !.pos = a.pos + 1] ELSE ParseFail
    ELSE IF i <= Len(t) /\ ~t[i].lit /\ t[i].v[1] \in ScalarFields THEN
        IF IsSym(t, i + 1, "eq") /\ IsLit(t, i + 2)
        THEN [ok |-> TRUE, val |-> FieldValue(d, t[i].v[1]) = t[i + 2].v, pos |-> i + 3]
        ELSE IF IsSym(t, i + 1, "ne") /\ IsLit(t, i + 2)
        THEN [ok |-> TRUE, val |-> FieldValue(d, t[i].v[1]) # t[i + 2].v, pos |-> i + 3]
        ELSE ParseFail
    ELSE IF IsSym(t, i, "parties/any(p:") THEN
        IF IsSym(t, i + 1, "p") /\ IsSym(t, i + 2, "eq") /\ IsLit(t, i + 3)
           /\ IsSym(t, i + 4, ")")
        THEN [ok |-> TRUE, val |-> t[i + 3].v \in d.parties, pos |-> i + 5]
        ELSE ParseFail
    ELSE IF IsSym(t, i, "regulatoryCitations/any(c:") THEN
        IF IsSym(t, i + 1, "search.ismatch(") /\ IsLit(t, i + 2) /\ IsSym(t, i + 3, ",")
           /\ IsLit(t, i + 4) /\ IsSym(t, i + 5, ")") /\ IsSym(t, i + 6, ")")
        THEN [ok |-> TRUE, val |-> t[i + 2].v \in d.regulatoryCitations, pos |-> i + 7]
        ELSE ParseFail
    ELSE ParseFail

\* "true" / "false": the chunk matches or not; "error": the backend rejects the
\* expression (HTTP 400).  An absent filter matches everything.
EvalFilter(filter, d) ==
    IF filter = None THEN "true"
    ELSE LET lx == LexFrom(filter[1], 1, <<>>) IN
         IF ~lx.ok THEN "error"
         ELSE LET r == ParseOr(lx.toks, 1, d) IN
              IF r.ok /\ r.pos = Len(lx.toks) + 1
              THEN (IF r.val THEN "true" ELSE "false")
              ELSE "error"

\* scripts/ingest-documents.py index_chunks: the fields of a document's chunks
IndexFields(doc) ==
    [confidentialityLevel |-> doc.confidentiality_level,
     parties |-> doc.parties,
     documentType |-> "decision",
     proceedingId |-> <<"449">>,
     regulatoryCitations |-> {}]

----------------------------------------------------------------------------
(* auth/__init__.py: require_document_access / access_checker *)

\* mutant: the checker returns the claims without raising
AccessCheckerNeverRaises(claims, doc) ==
    [status |-> 200, code |-> "", claims |-> Some(claims)]

AccessChecker(claims, doc) ==
    IF ~CanAccessDocument(claims, doc)
    THEN [status |-> 403, code |-> "DOC_003", claims |-> None]
    ELSE [status |-> 200, code |-> "", claims |-> Some(claims)]

NoResponse == [status |-> 0, code |-> "", claims |-> None]

----------------------------------------------------------------------------
(* search/service.py: search_documents, the combined filter *)

NoRequest ==
    [proceeding_id |-> None, filters |-> None, query |-> "", top |-> 0,
     search_mode |-> ""]

NoSearch == [status |-> "none", hits |-> {}, ranked |-> <<>>, results |-> <<>>]

\* f"documentType eq '{dt.value}'"
TypeClause(dt) == <<"documentType", "eq", "Q", dt, "Q">>

\* f"parties/any(p: p eq '{party}')"
PartyClause(party) == <<"parties/any(p:", "p", "eq", "Q">> \o party \o <<"Q", ")">>

\* f"regulatoryCitations/any(c: search.ismatch('{cite}', 'c'))"
CitationClause(cite) ==
    <<"regulatoryCitations/any(c:", "search.ismatch(", "Q">> \o cite
        \o <<"Q", ",", "Q", "c", "Q", ")", ")">>

\* f"proceedingId eq '{request.proceeding_id}'"
ProceedingClause(pid) == <<"proceedingId", "eq", "Q">> \o pid \o <<"Q">>

\* f"({' or '.join(...)})" over a non-empty list
OrGroup(clauses) == <<"(">> \o JoinWith("or", clauses) \o <<")">>

ListTruthy(opt) == opt # None /\ opt[1] # <<>>

UserFilterParts(req) ==
    (IF req.filters # None
     THEN LET f == req.filters[1] IN
          (IF ListTruthy(f.document_types)
           THEN <<OrGroup([i \in 1..Len(f.document_types[1]) |->
                              TypeClause(f.document_types[1][i])])>>
           ELSE <<>>)
          \o (IF ListTruthy(f.parties)
              THEN <<OrGroup([i \in 1..Len(f.parties[1]) |->
                                 PartyClause(f.parties[1][i])])>>
              ELSE <<>>)
          \o (IF ListTruthy(f.regulatory_citations)
              THEN <<OrGroup([i \in 1..Len(f.regulatory_citations[1]) |->
                                 CitationClause(f.regulatory_citations[1][i])])>>
              ELSE <<>>)
     ELSE <<>>)
    \o (IF Truthy(req.proceeding_id)
        THEN <<ProceedingClause(req.proceeding_id[1])>>
        ELSE <<>>)

\* lines 105-141: security filter first (when truthy), then the caller's
FinalFilter(req, sec) ==
    LET filters == (IF Truthy(sec) THEN <<sec[1]>> ELSE <<>>) \o UserFilterParts(req)
    IN IF filters # <<>> THEN Some(JoinWith("and", filters)) ELSE None

\* SearchClient.search: the chunks of the index the filter matches; a
\* malformed filter is rejected for the whole request.
BackendSearch(idx, filter) ==
    IF \E d \in idx : EvalFilter(filter, d) = "error"
    THEN [status |-> "error", hits |-> {}]
    ELSE [status |-> "ok", hits |-> {d \in idx : EvalFilter(filter, d) = "true"}]

----------------------------------------------------------------------------
(* scripts/ingest-documents.py: chunk_text.  A text is a sequence of items: *)
(* a sentence [id, tok, page, para, mark] (id: its ordinal in the source,    *)
(* tok: its token count, page and para: where it was read, mark: n when the *)
(* sentence holds the paragraph marker "[n]", else 0) or white space.  The  *)
(* tokenizer counts the tokens of the sentences; white space has none.      *)

Space == [id |-> 0, tok |-> 0, page |-> 0, para |-> 0, mark |-> 0]

ParaBreak == [id |-> -1, tok |-> 0, page |-> 0, para |-> 0, mark |-> 0]

IsWhite(item) == item.id <= 0

RECURSIVE Tokens(_)
\* len(TOKENIZER.encode(text))
Tokens(text) == IF text = <<>> THEN 0 ELSE Head(text).tok + Tokens(Tail(text))

RECURSIVE JoinText(_, _)
\* sep.join(texts)
JoinText(sep, texts) ==
    IF texts = <<>> THEN <<>>
    ELSE IF Len(texts) = 1 THEN texts[1]
    ELSE texts[1] \o <<sep>> \o JoinText(sep, Tail(texts))

\* re.split(r'(?<=[.!?])\s+', para): the sentences of a paragraph, one text each
SplitSentences(para) ==
    LET ss == SelectSeq(para, LAMBDA item : ~IsWhite(item)) IN
    [k \in 1..Len(ss) |-> <<ss[k]>>]

\* extract_paragraph_numbers on a text of items: the markers the sentences
\* hold, in the order of the text
MarkersOf(text) ==
    LET marked == SelectSeq(text, LAMBDA item : item.mark # 0) IN
    [k \in 1..Len(marked) |-> marked[k].mark]

\* mutant: every chunk is given the id 0
MakeChunkSameId(id, sep, cur, page) ==
    LET chunk_text == JoinText(sep, cur)
        para_nums == MarkersOf(chunk_text)
    IN [chunk_id |-> 0, content |-> chunk_text, page_number |-> page,
        paragraph_number |-> IF para_nums # <<>> THEN Some(para_nums[1]) ELSE None]

\* mutant: the page of a chunk is the page its first sentence was read on
MakeChunkFirstPage(id, sep, cur, page) ==
    LET chunk_text == JoinText(sep, cur)
        para_nums == MarkersOf(chunk_text)
    IN [chunk_id |-> id, content |-> chunk_text, page_number |-> chunk_text[1].page,
        paragraph_number |-> IF para_nums # <<>> THEN Some(para_nums[1]) ELSE None]

\* mutant: the marker of a chunk is the last marker of its content
MakeChunkLastMarker(id, sep, cur, page) ==
    LET chunk_text == JoinText(sep, cur)
        para_nums == MarkersOf(chunk_text)
    IN [chunk_id |-> id, content |-> chunk_text, page_number |-> page,
        paragraph_number |-> IF para_nums # <<>> THEN Some(para_nums[Len(para_nums)])
                             ELSE None]

\* the dict appended to chunks at each of the four flush sites; the
\* regulatory citations of the content are left out
MakeChunk(id, sep, cur, page) ==
    LET chunk_text == JoinText(sep, cur)
        para_nums == MarkersOf(chunk_text)
    IN [chunk_id |-> id, content |-> chunk_text, page_number |-> page,
        paragraph_number |-> IF para_nums # <<>> THEN Some(para_nums[1]) ELSE None]

\* lines 163-165: the texts kept after a flush inside the sentence loop
SentenceOverlap(cur) ==
    LET overlap_text == IF Len(cur) >= 2
                        THEN JoinText(Space, SubSeq(cur, Len(cur) - 1, Len(cur)))
                        ELSE <<>>
    IN IF overlap_text # <<>> THEN <<overlap_text>> ELSE <<>>

\* lines 185-186: the texts of the chunk started after a paragraph flush
\* mutant: the chunk started after a paragraph flush holds the overlap only
ParagraphOverlapDropsParagraph(cur, para) ==
    IF cur # <<>> THEN <<cur[Len(cur)]>> ELSE <<para>>

ParagraphOverlap(cur, para) ==
    (IF cur # <<>> THEN <<cur[Len(cur)]>> ELSE <<>>) \o <<para>>

RECURSIVE SumTokens(_)
\* sum(len(TOKENIZER.encode(p)) for p in current_chunk)
SumTokens(texts) ==
    IF texts = <<>> THEN 0 ELSE Tokens(Head(texts)) + SumTokens(Tail(texts))

ChunkerIdle ==
    /\ chunk_size = 0
    /\ cpc = "idle"
    /\ page_num = 0
    /\ sentences = <<>>
    /\ current_chunk = <<>>
    /\ current_tokens = 0
    /\ current_page = 0
    /\ chunk_id = 0
    /\ chunks = <<>>
    /\ source = <<>>

IngestIdle ==
    /\ pdf_files = <<>>
    /\ file_idx = 0
    /\ ipc = "idle"
    /\ uuids = 0
    /\ document_id = 0
    /\ pages = 0
    /\ n_chunks = 0
    /\ embeddings = 0
    /\ uploaded = 0
    /\ indexed = 0
    /\ embed_calls = 0
    /\ upload_calls = 0
    /\ meta_writes = 0
    /\ cosmos = {}
    /\ results = <<>>

NoOutcome == [embedding |-> "none", search |-> "none"]

QueryIdle == search_kwargs = None /\ outcome = NoOutcome

NoCitationArgs ==
    [proceeding_id |-> <<>>, document_type |-> <<>>, page_number |-> 0,
     paragraph_number |-> None, abaer_citation |-> None]

SnippetIdle == content = <<>> /\ max_length = 0 /\ snippet = None

CitationIdle == citation_in = NoCitationArgs /\ citation_ref = None

ExtractIdle == doc_text = <<>> /\ citations = None

TextIdle == SnippetIdle /\ CitationIdle /\ ExtractIdle

MarkersIdle == marker_text = <<>> /\ marker_list = None

NoEnviron == [DEMO_ROLE |-> None, ENVIRONMENT |-> None]

NoAuthRequest == [x_demo_role |-> None, credentials |-> None, state_claims |-> None]

NoCurrentUser == [ended |-> "none", claims |-> None, status |-> 0, code |-> ""]

AuthIdle == environ = NoEnviron /\ auth_request = NoAuthRequest /\ current_user = NoCurrentUser

MetadataIdle == metadata = None

ExtraIdle == MarkersIdle /\ AuthIdle /\ MetadataIdle

RestIdle == IngestIdle /\ QueryIdle /\ TextIdle /\ ExtraIdle

----------------------------------------------------------------------------
(* The access policy as a state machine: a request scope holds claims and  *)
(* a document; each action is one call.                                    *)

InitAccess ==
    /\ mode = "access"
    /\ op = "none"
    /\ user_claims \in ClaimsDomain
    /\ document \in DocumentDomain
    /\ access = FALSE
    /\ security_filter = None
    /\ response = NoResponse
    /\ index = {}
    /\ request = NoRequest
    /\ final_filter = None
    /\ search_response = NoSearch
    /\ ChunkerIdle
    /\ RestIdle

CallCanAccess ==
    /\ mode = "access" /\ op = "none"
    /\ op' = "can_access_document"
    /\ access' = CanAccessDocument(user_claims, document)
    /\ UNCHANGED <<mode, user_claims, document, security_filter, response, searchVars, chunkVars, restVars>>

CallBuildSearchFilter ==
    /\ mode = "access" /\ op = "none"
    /\ op' = "build_search_filter"
    /\ security_filter' = BuildSearchFilter(user_claims)
    /\ UNCHANGED <<mode, user_claims, document, access, response, searchVars, chunkVars, restVars>>

CallAccessChecker ==
    /\ mode = "access" /\ op = "none"
    /\ op' = "access_checker"
    /\ response' = AccessChecker(user_claims, document)
    /\ UNCHANGED <<mode, user_claims, document, access, security_filter, searchVars, chunkVars, restVars>>

NextAccess == CallCanAccess \/ CallBuildSearchFilter \/ CallAccessChecker

SpecAccess == InitAccess /\ [][NextAccess]_vars

----------------------------------------------------------------------------
(* Claims about the access policy, checked under SpecAccess. *)

BoolText(b) == IF b THEN "true" ELSE "false"

HasPanel == "Hearing_Panel" \in user_claims.roles

HasStaff == "Staff" \in user_claims.roles

\* C1: for every claims value and every document, the filter returned by
\* build_search_filter, evaluated by the backend on the document's indexed
\* confidentialityLevel and party names (absent filter = matches everything),
\* gives the same boolean as can_access_document.
C1_FilterCheckEquivalence ==
    (mode = "access" /\ op = "build_search_filter") =>
        EvalFilter(security_filter, IndexFields(document))
            = BoolText(CanAccessDocument(user_claims, document))

\* C3: a confidential document is accessible if and only if the claims hold
\* the Hearing_Panel role; Staff and a matching affiliation never grant it.
C3_ConfidentialPanelOnly ==
    (mode = "access" /\ op = "can_access_document"
        /\ document.confidentiality_level = "confidential") =>
        (access <=> HasPanel)

C3_Witness ==
    /\ mode = "access" /\ op = "can_access_document"
    /\ document.confidentiality_level = "confidential"
    /\ HasStaff /\ ~HasPanel
    /\ Truthy(user_claims.party_affiliation)
    /\ user_claims.party_affiliation[1] \in document.parties
    /\ access = FALSE

\* C4 as stated: a protected_a document is accessible if and only if the
\* claims hold Staff or Hearing_Panel, or the affiliation is present and equal
\* to a roster name.
C4_ProtectedRule_Original ==
    (mode = "access" /\ op = "can_access_document"
        /\ document.confidentiality_level = "protected_a") =>
        (access <=> \/ HasStaff \/ HasPanel
                    \/ /\ user_claims.party_affiliation # None
                       /\ user_claims.party_affiliation[1] \in document.parties)

\* C4 amended: ... or the affiliation is present, non-empty and equal to a
\* roster name; no Intervener role is needed, and an affiliation that differs
\* from every roster name gives false.
C4_ProtectedRule ==
    (mode = "access" /\ op = "can_access_document"
        /\ document.confidentiality_level = "protected_a") =>
        (access <=> \/ HasStaff \/ HasPanel
                    \/ /\ user_claims.party_affiliation # None
                       /\ user_claims.party_affiliation[1] # <<>>
                       /\ user_claims.party_affiliation[1] \in document.parties)

C4_Witness ==
    /\ mode = "access" /\ op = "can_access_document"
    /\ document.confidentiality_level = "protected_a"
    /\ user_claims.roles = {}
    /\ Truthy(user_claims.party_affiliation)
    /\ user_claims.party_affiliation[1] \in document.parties
    /\ Cardinality(document.parties) = 2
    /\ access = TRUE

\* C5: with Hearing_Panel among the roles, can_access_document is true for
\* every level and every roster, whatever else the claims carry.
C5_PanelSeesAll ==
    (mode = "access" /\ op = "can_access_document" /\ HasPanel) => access

C5_Witness ==
    /\ mode = "access" /\ op = "can_access_document"
    /\ user_claims.roles = {"Hearing_Panel"}
    /\ user_claims.party_affiliation = None
    /\ document.confidentiality_level = "protected_a"
    /\ document.parties # {}
    /\ access = TRUE

C7_CheckerRejectsExactlyDenied ==
    (mode = "access" /\ op = "access_checker") =>
        IF CanAccessDocument(user_claims, document)
        THEN response.status = 200 /\ response.claims = Some(user_claims)
        ELSE response.status = 403 /\ response.code = "DOC_003"
             /\ response.claims = None

C7_Witness ==
    /\ mode = "access" /\ op = "access_checker"
    /\ document.confidentiality_level = "confidential"
    /\ HasStaff /\ ~HasPanel
    /\ response.status = 403 /\ response.code = "DOC_003"

----------------------------------------------------------------------------
(* /api/search as a state machine: each step serves one request against    *)
(* the index.                                                              *)

Chunk(id, level, parties, dtype, pid, cites) ==
    [documentId |-> id, confidentialityLevel |-> level, parties |-> parties,
     documentType |-> dtype, proceedingId |-> pid, regulatoryCitations |-> cites]

Corpus ==
    { Chunk(1, "public", {<<"a">>}, "decision", <<"449">>, {<<"REDA">>}),
      Chunk(2, "public", {}, "transcript", <<"450">>, {}),
      Chunk(3, "protected_a", {<<"a">>}, "evidence", <<"449">>, {<<"REDA">>}),
      Chunk(4, "protected_a", {<<"a", "a">>}, "evidence", <<"450">>, {}),
      Chunk(5, "confidential", {<<"a">>}, "evidence", <<"449">>, {}),
      Chunk(6, "confidential", {<<"a", "a">>}, "decision", <<"450">>, {<<"REDA">>}) }

\* request values a caller can post: SearchRequest puts no pattern on
\* proceeding_id, parties or regulatory_citations
ProceedingIds ==
    { None, Some(<<>>), Some(<<"449">>),
      Some(<<"449", "Q", "or", "confidentialityLevel", "eq", "Q", "confidential">>) }

DocumentTypeLists == { None, Some(<<"decision">>), Some(<<"decision", "evidence">>) }

PartyLists ==
    { None, Some(<<>>), Some(<< <<"a">> >>), Some(<< <<"a">>, <<"a", "a">> >>),
      Some(<< <<"a", "Q">> >>) }

CitationLists == { None, Some(<< <<"REDA">> >>) }

Queries == {"groundwater", "pipeline approval"}

\* top: Field(ge=1, le=50)
Tops == {1, 3}

\* search_mode: pattern ^(hybrid|vector|keyword)$
SearchModes == {"hybrid", "vector", "keyword"}

RequestDomain ==
    [proceeding_id : ProceedingIds,
     filters : {None} \cup
               {Some(f) : f \in [document_types : DocumentTypeLists,
                                 parties : PartyLists,
                                 regulatory_citations : CitationLists]},
     query : Queries,
     top : Tops,
     search_mode : SearchModes]

SearchClaimsDomain ==
    [roles : SUBSET Roles, party_affiliation : {None, Some(<<"a">>)}]

\* generate_embedding (lines 80-87): the vector of a text
Embedding(text) == <<"vector of", text>>

\* VectorizedQuery(vector=query_vector, k_nearest_neighbors=50, fields=...)
VectorizedQuery(vector) ==
    [vector |-> vector, k_nearest_neighbors |-> 50, fields |-> "contentVector"]

Facets ==
    <<"documentType,count:10", "proceedingId,count:20", "parties,count:20",
      "regulatoryCitations,count:20">>

\* mutant: the text query is sent in every mode
SearchKwargsAlwaysText(req, filter) ==
    [search_text |-> Some(req.query),
     vector_queries |-> IF req.search_mode \in {"hybrid", "vector"}
                        THEN Some(<<VectorizedQuery(Embedding(req.query))>>) ELSE None,
     filter |-> filter,
     top |-> Some(req.top),
     facets |-> Some(Facets),
     query_type |-> Some(IF req.search_mode = "hybrid" THEN "semantic" ELSE "simple"),
     semantic_configuration_name |->
         IF req.search_mode = "hybrid" THEN Some("semantic-config") ELSE None]

\* lines 154-175: the keyword arguments; a None value stands for a removed key
SearchKwargs(req, filter) ==
    [search_text |-> IF req.search_mode \in {"hybrid", "keyword"}
                     THEN Some(req.query) ELSE None,
     vector_queries |-> IF req.search_mode \in {"hybrid", "vector"}
                        THEN Some(<<VectorizedQuery(Embedding(req.query))>>) ELSE None,
     filter |-> filter,
     top |-> Some(req.top),
     facets |-> Some(Facets),
     query_type |-> Some(IF req.search_mode = "hybrid" THEN "semantic" ELSE "simple"),
     semantic_configuration_name |->
         IF req.search_mode = "hybrid" THEN Some("semantic-config") ELSE None]

\* the "@search.score" the backend gives a chunk for the query it was sent
Score(d, kw) ==
    LET q == IF kw.search_text # None THEN Embedding(kw.search_text[1])
             ELSE IF kw.vector_queries # None THEN kw.vector_queries[1][1].vector
             ELSE <<>>
    IN IF q = Embedding("groundwater") THEN d.documentId ELSE 0 - d.documentId

RECURSIVE ByScore(_, _)
\* the chunks of a set, best score first
ByScore(hits, kw) ==
    IF hits = {} THEN <<>>
    ELSE LET best == CHOOSE d \in hits : \A e \in hits : Score(e, kw) <= Score(d, kw)
         IN <<best>> \o ByScore(hits \ {best}, kw)

\* SearchClient.search(**search_kwargs): the first `top` matches in rank order
BackendPage(idx, kw) ==
    LET m == BackendSearch(idx, kw.filter)
        ranked == ByScore(m.hits, kw)
    IN [status |-> m.status,
        ranked |-> IF Len(ranked) <= kw.top[1] THEN ranked
                   ELSE SubSeq(ranked, 1, kw.top[1])]

\* lines 214-224: the SearchResult built from a hit
SearchResultOf(d, kw) ==
    [document_id |-> d.documentId, relevance_score |-> Score(d, kw)]

\* how a remote call ends: it returns, or it raises
CallOutcomes == {"ok", "error", "timeout"}

SearchFailed == [status |-> "error", hits |-> {}, ranked |-> <<>>, results |-> <<>>]

\* mutant: a failed call is answered with an empty result list
RespondEmptyOnFailure(out, page, kw) ==
    IF out.embedding # "ok" \/ out.search # "ok" \/ page.status # "ok"
    THEN [status |-> "ok", hits |-> {}, ranked |-> <<>>, results |-> <<>>]
    ELSE [status |-> "ok",
          hits |-> {page.ranked[i] : i \in 1..Len(page.ranked)},
          ranked |-> page.ranked,
          results |-> [i \in 1..Len(page.ranked) |-> SearchResultOf(page.ranked[i], kw)]]

\* lines 144, 177-244 and main.py 190-194: an exception of either call leaves
\* search_documents and the handler; otherwise one SearchResult per hit
Respond(out, page, kw) ==
    IF out.embedding # "ok" \/ out.search # "ok" \/ page.status # "ok"
    THEN SearchFailed
    ELSE [status |-> "ok",
          hits |-> {page.ranked[i] : i \in 1..Len(page.ranked)},
          ranked |-> page.ranked,
          results |-> [i \in 1..Len(page.ranked) |-> SearchResultOf(page.ranked[i], kw)]]

InitSearch ==
    /\ mode = "search"
    /\ op = "none"
    /\ user_claims \in SearchClaimsDomain
    /\ document = [confidentiality_level |-> "public", parties |-> {}]
    /\ access = FALSE
    /\ security_filter = None
    /\ response = NoResponse
    /\ index = Corpus
    /\ request \in RequestDomain
    /\ final_filter = None
    /\ search_response = NoSearch
    /\ ChunkerIdle
    /\ RestIdle

\* main.py search_documents_endpoint followed by service.py search_documents,
\* for the request and the authenticated claims of this request scope
SearchDocumentsEndpoint ==
    /\ mode = "search" /\ op = "none"
    /\ op' = "search_documents"
    /\ security_filter' = BuildSearchFilter(user_claims)
    /\ final_filter' = FinalFilter(request, BuildSearchFilter(user_claims))
    /\ \E e \in CallOutcomes, b \in CallOutcomes :
        LET kw == SearchKwargs(request, FinalFilter(request, BuildSearchFilter(user_claims)))
            out == [embedding |-> e, search |-> IF e = "ok" THEN b ELSE "none"]
        IN /\ outcome' = out
           /\ search_kwargs' = IF e = "ok" THEN Some(kw) ELSE None
           /\ search_response' =
                  IF e = "ok" /\ b = "ok" THEN Respond(out, BackendPage(index, kw), kw)
                  ELSE Respond(out, SearchFailed, kw)
    /\ UNCHANGED <<mode, user_claims, document, access, response, index, request,
                   chunkVars, ingestVars, textVars, extraVars>>

NextSearch == SearchDocumentsEndpoint

SpecSearch == InitSearch /\ [][NextSearch]_vars

\* C2: the filter handed to the backend is the AND-conjunction of
\* build_search_filter(claims) with the caller-supplied filters, so that for
\* every choice of caller-supplied values no returned hit is one the security
\* filter alone excludes.
C2_HitsWithinSecurityFilter ==
    (mode = "search" /\ op = "search_documents") =>
        /\ final_filter = FinalFilter(request, BuildSearchFilter(user_claims))
        /\ \A d \in search_response.hits :
              EvalFilter(BuildSearchFilter(user_claims), d) = "true"

\* C16: a failure or timeout of the query-embedding call or of the backend
\* call is answered as an error, never as a successful response; a successful
\* response with an empty result list is given only when both calls returned
\* and the backend matched no chunk.
C16_FailureIsNotEmptyResult ==
    (mode = "search" /\ op = "search_documents") =>
        /\ (outcome.embedding # "ok" \/ outcome.search # "ok") =>
              search_response.status = "error"
        /\ (search_response.status = "ok" /\ search_response.results = <<>>) =>
              /\ outcome = [embedding |-> "ok", search |-> "ok"]
              /\ BackendSearch(index, final_filter) = [status |-> "ok", hits |-> {}]

C16_Witness ==
    /\ mode = "search" /\ op = "search_documents"
    /\ outcome = [embedding |-> "ok", search |-> "timeout"]
    /\ BackendSearch(index, final_filter).hits # {}
    /\ search_response.status = "error"

\* C17: the backend call carries the text query only in keyword mode, the
\* vector query only in vector mode and both in hybrid mode; in every mode it
\* carries the combined filter, the requested top and the declared facets;
\* the results are the backend's hits, one each, in the backend's order.
C17_QueryPerMode ==
    (mode = "search" /\ op = "search_documents" /\ search_kwargs # None) =>
        LET kw == search_kwargs[1]
            text == Some(request.query)
            vector == Some(<<VectorizedQuery(Embedding(request.query))>>)
        IN /\ request.search_mode = "keyword" =>
                 kw.search_text = text /\ kw.vector_queries = None
           /\ request.search_mode = "vector" =>
                 kw.search_text = None /\ kw.vector_queries = vector
           /\ request.search_mode = "hybrid" =>
                 kw.search_text = text /\ kw.vector_queries = vector
           /\ kw.filter = FinalFilter(request, BuildSearchFilter(user_claims))
           /\ kw.top = Some(request.top)
           /\ kw.facets = Some(Facets)
           /\ search_response.status = "ok" =>
                 /\ search_response.ranked = BackendPage(index, kw).ranked
                 /\ Len(search_response.results) = Len(search_response.ranked)
                 /\ \A i \in 1..Len(search_response.ranked) :
                       /\ search_response.results[i].document_id
                             = search_response.ranked[i].documentId
                       /\ search_response.results[i].relevance_score
                             = Score(search_response.ranked[i], kw)

C17_Witness ==
    /\ mode = "search" /\ op = "search_documents"
    /\ request.search_mode = "vector"
    /\ request.top = 3
    /\ search_kwargs # None
    /\ search_kwargs[1].search_text = None
    /\ search_response.status = "ok"
    /\ Len(search_response.results) = 3
    /\ search_response.results[1].relevance_score > search_response.results[3].relevance_score

----------------------------------------------------------------------------
(* chunk_text as a state machine.  The pages are read as the loops reach   *)
(* them: NextPage enters the next page, the paragraph actions take the     *)
(* next paragraph of the page, EndOfInput leaves the loops.                *)

MaxUnits == 5

MaxPages == 2

SentTokens == {1, 2, 4}

ChunkSizes == {3, 5}

\* the documents read number every other paragraph: the first, the third, ...
Numbered(n) == n % 2 = 1

\* the next paragraph of the page, stripped: n sentences with the next ids,
\* separated by white space; a numbered paragraph begins with its marker
NewParagraph(toks) ==
    LET n == IF source = <<>> THEN 1 ELSE source[Len(source)].para + 1 IN
    JoinText(Space, [k \in 1..Len(toks) |->
                        <<[id |-> Len(source) + k, tok |-> toks[k],
                           page |-> page_num, para |-> n,
                           mark |-> IF Numbered(n) /\ k = 1 THEN n ELSE 0]>>])

ParagraphShapes == UNION {[1..n -> SentTokens] : n \in 1..(MaxUnits - Len(source))}

AccessIdle ==
    /\ user_claims = [roles |-> {}, party_affiliation |-> None]
    /\ document = [confidentiality_level |-> "public", parties |-> {}]
    /\ access = FALSE
    /\ security_filter = None
    /\ response = NoResponse

SearchIdle ==
    /\ index = {}
    /\ request = NoRequest
    /\ final_filter = None
    /\ search_response = NoSearch

InitChunk ==
    /\ mode = "chunk"
    /\ op = "chunk_text"
    /\ AccessIdle
    /\ SearchIdle
    /\ chunk_size \in ChunkSizes
    /\ cpc = "para"
    /\ page_num = 0
    /\ sentences = <<>>
    /\ current_chunk = <<>>
    /\ current_tokens = 0
    /\ current_page = 1
    /\ chunk_id = 0
    /\ chunks = <<>>
    /\ source = <<>>
    /\ RestIdle

chunkFixed == <<mode, op, accessVars, searchVars, chunk_size, restVars>>

\* line 116: for page in pages
NextPage ==
    /\ mode = "chunk" /\ cpc = "para"
    /\ page_num < MaxPages
    /\ page_num' = page_num + 1
    /\ UNCHANGED <<chunkFixed, cpc, sentences, current_chunk, current_tokens,
                   current_page, chunk_id, chunks, source>>

\* lines 124-126: a paragraph that is blank after strip() is skipped
BlankParagraph ==
    /\ mode = "chunk" /\ cpc = "para" /\ page_num >= 1
    /\ UNCHANGED vars

\* lines 131-148: a paragraph above chunk_size: the pending chunk is flushed
\* and the sentence loop is entered
OversizedParagraph ==
    /\ mode = "chunk" /\ cpc = "para" /\ page_num >= 1
    /\ \E toks \in ParagraphShapes :
        LET para == NewParagraph(toks) IN
        /\ Tokens(para) > chunk_size
        /\ IF current_chunk # <<>>
           THEN /\ chunks' = Append(chunks, MakeChunk(chunk_id, ParaBreak,
                                                      current_chunk, current_page))
                /\ chunk_id' = chunk_id + 1
           ELSE UNCHANGED <<chunks, chunk_id>>
        /\ current_chunk' = <<>>
        /\ current_tokens' = IF current_chunk # <<>> THEN 0 ELSE current_tokens
        /\ sentences' = SplitSentences(para)
        /\ source' = source \o SelectSeq(para, LAMBDA item : ~IsWhite(item))
    /\ cpc' = "sent"
    /\ UNCHANGED <<chunkFixed, page_num, current_page>>

\* lines 149-169: one iteration of the sentence loop
SentenceStep ==
    /\ mode = "chunk" /\ cpc = "sent"
    /\ LET sent == Head(sentences)
           sent_tokens == Tokens(sent)
           flush == current_tokens + sent_tokens > chunk_size /\ current_chunk # <<>>
           kept == IF flush THEN SentenceOverlap(current_chunk) ELSE current_chunk
           kept_tokens == IF flush THEN SumTokens(SentenceOverlap(current_chunk))
                          ELSE current_tokens
       IN /\ IF flush
             THEN /\ chunks' = Append(chunks, MakeChunk(chunk_id, Space,
                                                        current_chunk, current_page))
                  /\ chunk_id' = chunk_id + 1
             ELSE UNCHANGED <<chunks, chunk_id>>
          /\ current_chunk' = Append(kept, sent)
          /\ current_tokens' = kept_tokens + sent_tokens
          /\ current_page' = page_num
    /\ sentences' = Tail(sentences)
    /\ cpc' = IF Len(sentences) = 1 THEN "para" ELSE "sent"
    /\ UNCHANGED <<chunkFixed, page_num, source>>

\* lines 171-188: the paragraph does not fit the pending chunk
ParagraphFlush ==
    /\ mode = "chunk" /\ cpc = "para" /\ page_num >= 1
    /\ \E toks \in ParagraphShapes :
        LET para == NewParagraph(toks) IN
        /\ Tokens(para) <= chunk_size
        /\ current_tokens + Tokens(para) > chunk_size
        /\ chunks' = Append(chunks, MakeChunk(chunk_id, ParaBreak,
                                              current_chunk, current_page))
        /\ chunk_id' = chunk_id + 1
        /\ current_chunk' = ParagraphOverlap(current_chunk, para)
        /\ current_tokens' = SumTokens(ParagraphOverlap(current_chunk, para))
        /\ source' = source \o SelectSeq(para, LAMBDA item : ~IsWhite(item))
    /\ current_page' = page_num
    /\ UNCHANGED <<chunkFixed, cpc, page_num, sentences>>

\* lines 189-192: the paragraph fits
ParagraphAppend ==
    /\ mode = "chunk" /\ cpc = "para" /\ page_num >= 1
    /\ \E toks \in ParagraphShapes :
        LET para == NewParagraph(toks) IN
        /\ Tokens(para) <= chunk_size
        /\ current_tokens + Tokens(para) <= chunk_size
        /\ current_chunk' = Append(current_chunk, para)
        /\ current_tokens' = current_tokens + Tokens(para)
        /\ source' = source \o SelectSeq(para, LAMBDA item : ~IsWhite(item))
    /\ current_page' = page_num
    /\ UNCHANGED <<chunkFixed, cpc, page_num, sentences, chunk_id, chunks>>

\* mutant: the pending remainder is not flushed at the end of the input
EndOfInputDropsRemainder ==
    /\ mode = "chunk" /\ cpc = "para"
    /\ cpc' = "done"
    /\ UNCHANGED <<chunkFixed, page_num, sentences, current_chunk, current_tokens,
                   current_page, chunk_id, source, chunks>>

\* lines 194-206: the loops are over; the last chunk, then return chunks
EndOfInput ==
    /\ mode = "chunk" /\ cpc = "para"
    /\ IF current_chunk # <<>>
       THEN chunks' = Append(chunks, MakeChunk(chunk_id, ParaBreak,
                                               current_chunk, current_page))
       ELSE UNCHANGED chunks
    /\ cpc' = "done"
    /\ UNCHANGED <<chunkFixed, page_num, sentences, current_chunk, current_tokens,
                   current_page, chunk_id, source>>

NextChunk ==
    \/ NextPage
    \/ BlankParagraph
    \/ OversizedParagraph
    \/ SentenceStep
    \/ ParagraphFlush
    \/ ParagraphAppend
    \/ EndOfInput

SpecChunk == InitChunk /\ [][NextChunk]_vars

----------------------------------------------------------------------------
(* Claims about chunk_text, checked under SpecChunk. *)

\* the sentences of a text, white space removed
Words(text) == SelectSeq(text, LAMBDA item : ~IsWhite(item))

MinOf(a, b) == IF a <= b THEN a ELSE b

\* how many leading sentences of chunk cur are the trailing sentences of
\* chunk prev: the part of cur carried over from prev
CarriedLen(prev, cur) ==
    LET wp == Words(prev.content)
        wc == Words(cur.content)
        ks == {k \in 0..MinOf(Len(wp), Len(wc)) :
                 SubSeq(wc, 1, k) = SubSeq(wp, Len(wp) - k + 1, Len(wp))}
    IN CHOOSE k \in ks : \A j \in ks : j <= k

\* the chunk is one paragraph or one sentence, which alone exceeds chunk_size
OversizedSingleUnit(c) ==
    LET w == Words(c.content) IN
    /\ w # <<>>
    /\ \A k \in 1..Len(w) : w[k].para = w[1].para
    /\ Tokens(w) > chunk_size

\* C8: every emitted chunk that is not a single paragraph or sentence unit
\* exceeding chunk_size on its own has at most chunk_size tokens (overlap
\* included).
C8_Budget ==
    mode = "chunk" =>
        \A i \in 1..Len(chunks) :
            Tokens(chunks[i].content) <= chunk_size \/ OversizedSingleUnit(chunks[i])

\* C9: in a run that emits more than one chunk, every chunk after the first
\* begins with a non-empty whole unit that also ends the chunk before it.
C9_Overlap ==
    mode = "chunk" =>
        \A i \in 2..Len(chunks) : CarriedLen(chunks[i - 1], chunks[i]) >= 1

RECURSIVE Reconstruct(_, _)
\* the chunks from the i-th on, each without its carried-over part, concatenated
Reconstruct(cs, i) ==
    IF i > Len(cs) THEN <<>>
    ELSE LET w == Words(cs[i].content)
             k == IF i = 1 THEN 0 ELSE CarriedLen(cs[i - 1], cs[i])
         IN SubSeq(w, k + 1, Len(w)) \o Reconstruct(cs, i + 1)

\* C10: when chunk_text returns, the chunk contents in chunk_id order, each
\* without the part carried over from the chunk before, are the sentences of
\* the source pages, each once and in source order (white space aside).
C10_Reconstruction ==
    (mode = "chunk" /\ cpc = "done") => Reconstruct(chunks, 1) = source

C10_Witness ==
    /\ mode = "chunk" /\ cpc = "done"
    /\ Len(source) >= 4
    /\ Len(chunks) >= 3
    /\ \E i \in 2..Len(chunks) : CarriedLen(chunks[i - 1], chunks[i]) = 0
    /\ \E i \in 2..Len(chunks) : CarriedLen(chunks[i - 1], chunks[i]) >= 1
    /\ Reconstruct(chunks, 1) = source

\* C21: after every flush inside the sentence loop of an oversized paragraph
\* the next chunk is seeded with exactly the last one or two sentences of the
\* chunk just flushed: never with none and never with more than two.
C21_SentenceSeed ==
    [][(mode = "chunk" /\ cpc = "sent" /\ chunk_id' = chunk_id + 1) =>
          LET flushed == Words(chunks'[Len(chunks')].content)
              pending == Words(JoinText(Space, current_chunk'))
              seed == SubSeq(pending, 1, Len(pending) - 1)
          IN /\ Len(seed) \in {1, 2}
             /\ seed = SubSeq(flushed, Len(flushed) - Len(seed) + 1, Len(flushed))]_vars

\* C22: chunk_id is a counter from 0: the k-th emitted chunk (k = 0, 1, ...)
\* has chunk_id k, whichever flush site emitted it, so the ids are pairwise
\* distinct, strictly increasing and without gaps.
C22_ChunkIdCounter ==
    mode = "chunk" => \A k \in 1..Len(chunks) : chunks[k].chunk_id = k - 1

\* the chunk ends inside a paragraph: it was flushed by the sentence loop
EndsInsideParagraph(c) ==
    LET w == Words(c.content)
        last == w[Len(w)].id
    IN last < Len(source) /\ source[last + 1].para = source[last].para

\* a returned run of four chunks and more: one flushed inside a paragraph,
\* one followed by a chunk with nothing carried over, one followed by a chunk
\* that begins with carried text, and the last chunk
C22_Witness ==
    /\ mode = "chunk" /\ cpc = "done"
    /\ Len(chunks) >= 4
    /\ \E i \in 1..Len(chunks) : EndsInsideParagraph(chunks[i])
    /\ \E i \in 2..Len(chunks) : CarriedLen(chunks[i - 1], chunks[i]) = 0
    /\ \E i \in 2..Len(chunks) :
          /\ CarriedLen(chunks[i - 1], chunks[i]) >= 1
          /\ ~EndsInsideParagraph(chunks[i - 1])
    /\ chunks[Len(chunks)].chunk_id = Len(chunks) - 1

\* C23: every chunk's page_number is the page of the last unit of its
\* content (carried-over text included), and page_number never decreases as
\* chunk_id increases.
C23_PageOfLastUnit ==
    mode = "chunk" =>
        /\ \A i \in 1..Len(chunks) :
              LET w == Words(chunks[i].content) IN
              chunks[i].page_number = w[Len(w)].page
        /\ \A i, j \in 1..Len(chunks) :
              i <= j => chunks[i].page_number <= chunks[j].page_number

\* a chunk whose sentences come from two pages, labelled with the later one,
\* after a chunk of the earlier page
C23_Witness ==
    /\ mode = "chunk"
    /\ \E i \in 2..Len(chunks) :
          LET w == Words(chunks[i].content) IN
          /\ w[1].page < w[Len(w)].page
          /\ chunks[i].page_number = w[Len(w)].page
          /\ chunks[i - 1].page_number < chunks[i].page_number

\* C25: chunk_text returns no chunk if and only if no page holds a non-blank
\* paragraph; every emitted chunk has content; at the end of the input a
\* pending remainder is flushed as the last chunk.
C25_EmptyOnlyWithoutText ==
    mode = "chunk" =>
        /\ \A i \in 1..Len(chunks) : Words(chunks[i].content) # <<>>
        /\ cpc = "done" =>
              /\ chunks = <<>> <=> source = <<>>
              /\ current_chunk # <<>> =>
                    /\ chunks # <<>>
                    /\ chunks[Len(chunks)].content = JoinText(ParaBreak, current_chunk)

\* the pages were read, all their paragraphs were blank, nothing is returned
C25_Witness ==
    /\ mode = "chunk" /\ cpc = "done"
    /\ page_num = MaxPages
    /\ source = <<>>
    /\ chunks = <<>>

\* chunk_text as a function of its three arguments.  The pages are given as
\* the list of their non-blank paragraphs, each sentence holding its page.

\* lines 110-114
ChunkTextLocals ==
    [current_chunk |-> <<>>, current_tokens |-> 0, current_page |-> 1, chunk_id |-> 0,
     chunks |-> <<>>]

\* chunks.append({...}); chunk_id += 1
Flush(st, sep) ==
    [st EXCEPT !.chunks = Append(@, MakeChunk(st.chunk_id, sep, st.current_chunk,
                                              st.current_page)),
               !.chunk_id = @ + 1]

RECURSIVE SentenceLoop(_, _, _, _)
\* lines 149-169
SentenceLoop(st, sents, page, size) ==
    IF sents = <<>> THEN st
    ELSE LET sent == Head(sents)
             flush == /\ st.current_tokens + Tokens(sent) > size
                      /\ st.current_chunk # <<>>
             kept == SentenceOverlap(st.current_chunk)
             after == IF flush
                      THEN [Flush(st, Space) EXCEPT !.current_chunk = kept,
                                                    !.current_tokens = SumTokens(kept)]
                      ELSE st
         IN SentenceLoop([after EXCEPT !.current_chunk = Append(@, sent),
                                       !.current_tokens = @ + Tokens(sent),
                                       !.current_page = page],
                         Tail(sents), page, size)

\* lines 121-192: the body of the paragraph loop
ParagraphStep(st, para, size) ==
    LET page == para[1].page IN
    IF Tokens(para) > size
    THEN SentenceLoop(IF st.current_chunk # <<>>
                      THEN [Flush(st, ParaBreak) EXCEPT !.current_chunk = <<>>,
                                                        !.current_tokens = 0]
                      ELSE st,
                      SplitSentences(para), page, size)
    ELSE IF st.current_tokens + Tokens(para) > size
    THEN [Flush(st, ParaBreak) EXCEPT
              !.current_chunk = ParagraphOverlap(st.current_chunk, para),
              !.current_tokens = SumTokens(ParagraphOverlap(st.current_chunk, para)),
              !.current_page = page]
    ELSE [st EXCEPT !.current_chunk = Append(@, para),
                    !.current_tokens = @ + Tokens(para),
                    !.current_page = page]

RECURSIVE ParagraphLoop(_, _, _)
\* lines 116-192
ParagraphLoop(st, paras, size) ==
    IF paras = <<>> THEN st
    ELSE ParagraphLoop(ParagraphStep(st, Head(paras), size), Tail(paras), size)

\* the sentences of a chunk that were not carried over from the chunk before
FreshPart(cs, i) ==
    LET w == Words(cs[i].content)
        k == IF i = 1 THEN 0 ELSE CarriedLen(cs[i - 1], cs[i])
    IN SubSeq(w, k + 1, Len(w))

\* lines 194-206: the last chunk, then return chunks
LastFlush(st) ==
    IF st.current_chunk # <<>> THEN Flush(st, ParaBreak).chunks ELSE st.chunks

\* mutant: an overlap of 0 is honoured: nothing is carried over
ChunkTextHonoursZeroOverlap(pages_read, size, overlap) ==
    LET cs == LastFlush(ParagraphLoop(ChunkTextLocals, pages_read, size)) IN
    IF overlap = 0
    THEN [i \in 1..Len(cs) |-> [cs[i] EXCEPT !.content = FreshPart(cs, i)]]
    ELSE cs

\* lines 108-206; overlap is an argument that the body never reads
ChunkText(pages_read, size, overlap) ==
    LastFlush(ParagraphLoop(ChunkTextLocals, pages_read, size))

\* the overlap values of the calls compared: none, and the default of the
\* script
Overlaps == {0, 128}

\* the non-blank paragraphs of the pages read, in order
ParagraphsOf(src) ==
    LET last == IF src = <<>> THEN 0 ELSE src[Len(src)].para IN
    [n \in 1..last |->
        LET ss == SelectSeq(src, LAMBDA item : item.para = n) IN
        JoinText(Space, [k \in 1..Len(ss) |-> <<ss[k]>>])]

----------------------------------------------------------------------------
(* scripts/ingest-documents.py: main and process_document as a state       *)
(* machine.  process_document is cut at its suspension points: every call  *)
(* of a remote service (embeddings.create, upload_documents, upsert_item)  *)
(* is one step, which either returns or raises.  The index and the         *)
(* metadata store outlive a run of the script; RunAgain starts the script  *)
(* once more on the same directory.                                        *)

MaxFiles == 2

MaxIngests == 2

\* generate_embeddings: batch_size = 16
EmbedBatchSize == 16

\* index_chunks: batch_size = 100
UploadBatchSize == 100

\* pdf_path.name of the i-th file of the directory
Filename(i) == <<"doc", i>>

Directories == {[i \in 1..k |-> Filename(i)] : k \in 0..MaxFiles}

\* len(pages) as extract_text_from_pdf returns it: 0 when no page has text or
\* the reader failed before the first page
PageCounts == {0, 1}

\* len(chunk_text(pages)): below, at and above one batch of either service
ChunkCounts == {0, 1, EmbedBatchSize + 1, UploadBatchSize + 1}

\* str(e) of an exception a service call raises
Messages == {"", "service error"}

\* uuid.uuid4(): a value never drawn before
Uuid4(drawn) == drawn + 1

\* the dict index_chunks builds for a chunk (lines 268-285)
IndexDocument(id, chunk, filename) ==
    [id |-> <<id, chunk>>, documentId |-> id, chunkId |-> chunk, sourceUrl |-> filename]

\* the dict save_document_metadata builds (lines 307-321)
MetadataItem(id, filename, chunk_count) ==
    [id |-> id, filename |-> filename, sourceUrl |-> filename,
     processingStatus |-> "indexed", chunkCount |-> chunk_count]

\* upload_documents / upsert_item: an item replaces the stored item of its key
Upsert(store, items) == {e \in store : \A x \in items : x.id # e.id} \cup items

\* the IndexingResult list of one upload_documents call on chunks lo..hi-1:
\* the chunk ids whose result has succeeded = True
UploadOutcomes(lo, hi) == {lo..(hi - 1), (lo + 1)..(hi - 1), {}}

\* the result dicts of lines 348, 359 and 443-447
Failed(filename, reason) ==
    [filename |-> filename, status |-> "failed", reason |-> Some(reason),
     document_id |-> None, pages |-> None, chunks |-> None, indexed |-> None]

\* the result dict of lines 378-385
Succeeded(filename, id, npages, nchunks, nindexed) ==
    [filename |-> filename, status |-> "success", reason |-> None,
     document_id |-> Some(id), pages |-> Some(npages), chunks |-> Some(nchunks),
     indexed |-> Some(nindexed)]

\* mutant: the handler of main swallows the exception and records nothing
OnExceptionRecordsNothing(res, filename, message) == res

\* main lines 441-447: except Exception as e: results.append({...})
OnException(res, filename, message) == Append(res, Failed(filename, message))

InitIngest ==
    /\ mode = "ingest"
    /\ op = "main"
    /\ AccessIdle
    /\ SearchIdle
    /\ QueryIdle
    /\ TextIdle
    /\ ExtraIdle
    /\ ChunkerIdle
    /\ pdf_files \in Directories
    /\ file_idx = 0
    /\ ipc = "loop"
    /\ uuids = 0
    /\ document_id = 0
    /\ pages = 0
    /\ n_chunks = 0
    /\ embeddings = 0
    /\ uploaded = 0
    /\ indexed = 0
    /\ embed_calls = 0
    /\ upload_calls = 0
    /\ meta_writes = 0
    /\ cosmos = {}
    /\ results = <<>>

ingestFixed == <<mode, op, accessVars, request, final_filter, search_response,
                 queryVars, textVars, extraVars, chunkVars, pdf_files>>

\* main line 431 and process_document lines 334-341
StartDocument ==
    /\ mode = "ingest" /\ ipc = "loop"
    /\ file_idx < Len(pdf_files)
    /\ file_idx' = file_idx + 1
    /\ uuids' = uuids + 1
    /\ document_id' = Uuid4(uuids)
    /\ pages' = 0 /\ n_chunks' = 0 /\ embeddings' = 0 /\ uploaded' = 0 /\ indexed' = 0
    /\ embed_calls' = 0 /\ upload_calls' = 0 /\ meta_writes' = 0
    /\ ipc' = "extract"
    /\ UNCHANGED <<ingestFixed, index, cosmos, results>>

\* mutant: a document without pages is chunked and embedded all the same
ExtractTextGoesOn ==
    /\ mode = "ingest" /\ ipc = "extract"
    /\ \E p \in PageCounts : pages' = p
    /\ ipc' = "chunk"
    /\ UNCHANGED <<ingestFixed, file_idx, uuids, document_id, n_chunks, embeddings,
                   uploaded, indexed, embed_calls, upload_calls, meta_writes, index,
                   cosmos, results>>

\* lines 345-351: extract_text_from_pdf swallows its own exceptions
ExtractText ==
    /\ mode = "ingest" /\ ipc = "extract"
    /\ \E p \in PageCounts :
        /\ pages' = p
        /\ IF p = 0
           THEN /\ results' = Append(results, Failed(pdf_files[file_idx], "no text"))
                /\ ipc' = "loop"
           ELSE /\ ipc' = "chunk"
                /\ UNCHANGED results
    /\ UNCHANGED <<ingestFixed, file_idx, uuids, document_id, n_chunks, embeddings,
                   uploaded, indexed, embed_calls, upload_calls, meta_writes, index,
                   cosmos>>

\* lines 355-359
ChunkPages ==
    /\ mode = "ingest" /\ ipc = "chunk"
    /\ \E n \in ChunkCounts :
        /\ n_chunks' = n
        /\ IF n = 0
           THEN /\ results' = Append(results, Failed(pdf_files[file_idx], "no chunks"))
                /\ ipc' = "loop"
           ELSE /\ ipc' = "embed"
                /\ UNCHANGED results
    /\ UNCHANGED <<ingestFixed, file_idx, uuids, document_id, pages, embeddings,
                   uploaded, indexed, embed_calls, upload_calls, meta_writes, index,
                   cosmos>>

\* generate_embeddings lines 246-252: one embeddings.create call that returns
EmbedBatch ==
    /\ mode = "ingest" /\ ipc = "embed"
    /\ embeddings < n_chunks
    /\ embed_calls' = embed_calls + 1
    /\ embeddings' = MinOf(embeddings + EmbedBatchSize, n_chunks)
    /\ ipc' = IF embeddings + EmbedBatchSize >= n_chunks THEN "index" ELSE "embed"
    /\ UNCHANGED <<ingestFixed, file_idx, uuids, document_id, pages, n_chunks,
                   uploaded, indexed, upload_calls, meta_writes, index, cosmos,
                   results>>

\* an embeddings.create call that raises: main lines 441-447
EmbedRaises ==
    /\ mode = "ingest" /\ ipc = "embed"
    /\ embed_calls' = embed_calls + 1
    /\ \E m \in Messages : results' = OnException(results, pdf_files[file_idx], m)
    /\ ipc' = "loop"
    /\ UNCHANGED <<ingestFixed, file_idx, uuids, document_id, pages, n_chunks,
                   embeddings, uploaded, indexed, upload_calls, meta_writes, index,
                   cosmos>>

\* index_chunks lines 267-294: zip(chunks, embeddings) gives the documents; one
\* upload_documents call that returns
UploadBatch ==
    /\ mode = "ingest" /\ ipc = "index"
    /\ uploaded < MinOf(n_chunks, embeddings)
    /\ LET hi == MinOf(uploaded + UploadBatchSize, MinOf(n_chunks, embeddings)) IN
       /\ \E ok \in UploadOutcomes(uploaded, hi) :
            /\ index' = Upsert(index, {IndexDocument(document_id, c, pdf_files[file_idx])
                                          : c \in ok})
            /\ indexed' = indexed + Cardinality(ok)
       /\ uploaded' = hi
       /\ ipc' = IF hi = MinOf(n_chunks, embeddings) THEN "save" ELSE "index"
    /\ upload_calls' = upload_calls + 1
    /\ UNCHANGED <<ingestFixed, file_idx, uuids, document_id, pages, n_chunks,
                   embeddings, embed_calls, meta_writes, cosmos, results>>

\* an upload_documents call that raises: main lines 441-447
UploadRaises ==
    /\ mode = "ingest" /\ ipc = "index"
    /\ upload_calls' = upload_calls + 1
    /\ \E m \in Messages : results' = OnException(results, pdf_files[file_idx], m)
    /\ ipc' = "loop"
    /\ UNCHANGED <<ingestFixed, file_idx, uuids, document_id, pages, n_chunks,
                   embeddings, uploaded, indexed, embed_calls, meta_writes, index,
                   cosmos>>

\* lines 374-385 and main line 440: upsert_item returns
SaveMetadata ==
    /\ mode = "ingest" /\ ipc = "save"
    /\ cosmos' = Upsert(cosmos, {MetadataItem(document_id, pdf_files[file_idx], n_chunks)})
    /\ meta_writes' = meta_writes + 1
    /\ results' = Append(results, Succeeded(pdf_files[file_idx], document_id, pages,
                                            n_chunks, indexed))
    /\ ipc' = "loop"
    /\ UNCHANGED <<ingestFixed, file_idx, uuids, document_id, pages, n_chunks,
                   embeddings, uploaded, indexed, embed_calls, upload_calls, index>>

\* mutant: the item is stored, then the call raises
SaveRaisesAfterWrite ==
    /\ mode = "ingest" /\ ipc = "save"
    /\ cosmos' = Upsert(cosmos, {MetadataItem(document_id, pdf_files[file_idx], n_chunks)})
    /\ meta_writes' = meta_writes + 1
    /\ \E m \in Messages : results' = OnException(results, pdf_files[file_idx], m)
    /\ ipc' = "loop"
    /\ UNCHANGED <<ingestFixed, file_idx, uuids, document_id, pages, n_chunks,
                   embeddings, uploaded, indexed, embed_calls, upload_calls, index>>

\* upsert_item raises: main lines 441-447
SaveRaises ==
    /\ mode = "ingest" /\ ipc = "save"
    /\ \E m \in Messages : results' = OnException(results, pdf_files[file_idx], m)
    /\ ipc' = "loop"
    /\ UNCHANGED <<ingestFixed, file_idx, uuids, document_id, pages, n_chunks,
                   embeddings, uploaded, indexed, embed_calls, upload_calls,
                   meta_writes, index, cosmos>>

\* lines 449-470: the loop is over
EndOfBatch ==
    /\ mode = "ingest" /\ ipc = "loop"
    /\ file_idx = Len(pdf_files)
    /\ ipc' = "end"
    /\ UNCHANGED <<ingestFixed, file_idx, uuids, document_id, pages, n_chunks,
                   embeddings, uploaded, indexed, embed_calls, upload_calls,
                   meta_writes, index, cosmos, results>>

\* the script is started again on the same directory (lines 394-430)
RunAgain ==
    /\ mode = "ingest" /\ ipc = "end"
    /\ uuids + Len(pdf_files) <= MaxIngests
    /\ file_idx' = 0
    /\ results' = <<>>
    /\ ipc' = "loop"
    /\ UNCHANGED <<ingestFixed, uuids, document_id, pages, n_chunks, embeddings,
                   uploaded, indexed, embed_calls, upload_calls, meta_writes, index,
                   cosmos>>

NextIngest ==
    \/ StartDocument
    \/ ExtractText
    \/ ChunkPages
    \/ EmbedBatch
    \/ EmbedRaises
    \/ UploadBatch
    \/ UploadRaises
    \/ SaveMetadata
    \/ SaveRaises
    \/ EndOfBatch
    \/ RunAgain

SpecIngest == InitIngest /\ [][NextIngest]_vars

----------------------------------------------------------------------------
(* Claims about ingestion, checked under SpecIngest. *)

\* process_document has returned or raised for the file main took last
DocumentDone == mode = "ingest" /\ ipc \in {"loop", "end"} /\ results # <<>>

LastResult == results[Len(results)]

\* the chunks of the current document the index does not hold
MissingChunks ==
    {c \in 0..(n_chunks - 1) : \A e \in index : e.id # <<document_id, c>>}

RecordedAsIndexed ==
    \E item \in cosmos : item.id = document_id /\ item.processingStatus = "indexed"

\* C11: when an upload reported chunks of the document as not succeeded, so
\* that some of its chunks are missing from the index, process_document does
\* not return status 'success' and does not record the document as indexed.
C11_PartialFailureSurfaced ==
    (DocumentDone /\ n_chunks > indexed /\ MissingChunks # {}) =>
        (LastResult.status # "success" /\ ~RecordedAsIndexed)

\* C12: a failure of one document never aborts the batch: the PDFs are taken
\* in order, every document the loop is done with has exactly one entry in
\* results, under its file name, failed ones with status 'failed' and a
\* reason, and when main leaves the loop there is one entry per PDF.
C12_BatchNeverAborts ==
    mode = "ingest" =>
        /\ Len(results) <= Len(pdf_files)
        /\ \A i \in 1..Len(results) :
              /\ results[i].filename = pdf_files[i]
              /\ results[i].status \in {"success", "failed"}
              /\ results[i].status = "failed" => results[i].reason # None
        /\ ipc \in {"loop", "end"} => Len(results) = file_idx
        /\ ipc = "end" => Len(results) = Len(pdf_files)

C12_Witness ==
    /\ mode = "ingest" /\ ipc = "end"
    /\ Len(pdf_files) = 2 /\ Len(results) = 2
    /\ results[1].status = "failed" /\ results[1].reason = Some("service error")
    /\ results[2].status = "success"

HoldsCurrentDocument(store) == \E e \in store : e.id = document_id

\* C13: a document with no page of text, or with no chunk, ends 'failed'
\* with no embedding call, no index upload and no metadata write made for it.
C13_ZeroIsTerminal ==
    (DocumentDone /\ (pages = 0 \/ n_chunks = 0)) =>
        /\ LastResult.status = "failed"
        /\ LastResult.reason \in {Some("no text"), Some("no chunks")}
        /\ embed_calls = 0 /\ upload_calls = 0 /\ meta_writes = 0
        /\ ~\E e \in index : e.documentId = document_id
        /\ ~HoldsCurrentDocument(cosmos)

C13_Witness ==
    /\ DocumentDone /\ pages = 0
    /\ file_idx = 2
    /\ results[1].status = "success"
    /\ LastResult = Failed(pdf_files[2], "no text")
    /\ embed_calls = 0 /\ upload_calls = 0 /\ meta_writes = 0

\* C14: in a run of process_document the metadata store is written at most
\* once, only when every embedding call and every upload batch of the
\* document has returned, and never in a run that ends failed.
C14_MetadataWrittenOnceAtCompletion ==
    mode = "ingest" =>
        /\ meta_writes <= 1
        /\ HoldsCurrentDocument(cosmos) <=> meta_writes = 1
        /\ meta_writes = 1 =>
              /\ n_chunks >= 1
              /\ embeddings = n_chunks
              /\ uploaded = n_chunks
              /\ ipc \in {"loop", "end"}
        /\ (DocumentDone /\ LastResult.status = "failed") => meta_writes = 0

C14_Witness ==
    /\ mode = "ingest" /\ meta_writes = 1
    /\ n_chunks = UploadBatchSize + 1
    /\ embed_calls = 7 /\ upload_calls = 2
    /\ LastResult.status = "success"

\* C15: after process_document has run twice on the same file, the index
\* holds the chunks of one document id for it and the metadata store one
\* record for it.
C15_ReingestSameIdentity ==
    (mode = "ingest" /\ ipc = "end" /\ uuids > Len(pdf_files)) =>
        \A i \in 1..Len(pdf_files) :
            /\ Cardinality({e.documentId : e \in {x \in index : x.sourceUrl = pdf_files[i]}}) <= 1
            /\ Cardinality({item \in cosmos : item.filename = pdf_files[i]}) <= 1

\* C30: after any run of process_document, a run that raised included, every
\* chunk in the search index belongs to a document that has a record in the
\* metadata store; no chunk of a document whose ingestion is reported as
\* failed is left in the index.
C30_NoOrphanChunks ==
    DocumentDone =>
        /\ \A e \in index : \E item \in cosmos : item.id = e.documentId
        /\ LastResult.status = "failed" =>
              ~\E e \in index : e.documentId = document_id

----------------------------------------------------------------------------
(* search/service.py: highlight_snippet.  A string is the sequence of its  *)
(* characters; "a" stands for any character that is neither a full stop    *)
(* nor white space.  Indices are Python's: the first character has index 0. *)

MaxContentLen == 8

SnippetChars == {"a", ".", " "}

Contents == UNION {[1..n -> SnippetChars] : n \in 0..MaxContentLen}

MaxLengths == {5, 6}

\* the example of the specification: 400 characters, the only sentence
\* boundary (a full stop followed by a space) at character 180
Example400 == [i \in 1..400 |-> IF i = 180 THEN "." ELSE IF i = 181 THEN " " ELSE "a"]

otherIdle ==
    AccessIdle /\ SearchIdle /\ ChunkerIdle /\ IngestIdle /\ QueryIdle /\ ExtraIdle

MaxOfSet(S) == CHOOSE x \in S : \A y \in S : y <= x

MinOfSet(S) == CHOOSE x \in S : \A y \in S : x <= y

\* str.strip()
Strip(str) ==
    LET keep == {i \in 1..Len(str) : str[i] # " "} IN
    IF keep = {} THEN <<>> ELSE SubSeq(str, MinOfSet(keep), MaxOfSet(keep))

\* str.rfind(sub): the highest index at which sub starts, -1 when there is none
RFind(str, sub) ==
    LET at == {i \in 1..(Len(str) - Len(sub) + 1) :
                  SubSeq(str, i, i + Len(sub) - 1) = sub}
    IN IF at = {} THEN -1 ELSE MaxOfSet(at) - 1

\* str[:n] for n >= 0
Slice(str, n) == SubSeq(str, 1, IF n <= Len(str) THEN n ELSE Len(str))

Ellipsis == <<".", ".", ".">>

\* mutant: a sentence boundary at the midpoint itself is taken
HighlightSnippetAtMidpoint(raw, limit) ==
    LET stripped == Strip(raw) IN
    IF Len(stripped) <= limit THEN stripped
    ELSE LET truncated == Slice(stripped, limit)
             last_period == RFind(truncated, <<".", " ">>)
             last_space == RFind(truncated, <<" ">>)
         IN IF last_period >= limit \div 2 THEN Slice(truncated, last_period + 1)
            ELSE IF last_space > 0 THEN Slice(truncated, last_space) \o Ellipsis
            ELSE truncated \o Ellipsis

HighlightSnippet(raw, limit) ==
    LET stripped == Strip(raw) IN
    IF Len(stripped) <= limit THEN stripped
    ELSE LET truncated == Slice(stripped, limit)
             last_period == RFind(truncated, <<".", " ">>)
             last_space == RFind(truncated, <<" ">>)
         IN IF last_period > limit \div 2 THEN Slice(truncated, last_period + 1)
            ELSE IF last_space > 0 THEN Slice(truncated, last_space) \o Ellipsis
            ELSE truncated \o Ellipsis

InitSnippet ==
    /\ mode = "snippet"
    /\ op = "none"
    /\ otherIdle
    /\ CitationIdle /\ ExtractIdle
    /\ \E arguments \in (Contents \X MaxLengths) \cup {<<Example400, 300>>} :
          content = arguments[1] /\ max_length = arguments[2]
    /\ snippet = None

CallHighlightSnippet ==
    /\ mode = "snippet" /\ op = "none"
    /\ op' = "highlight_snippet"
    /\ snippet' = Some(HighlightSnippet(content, max_length))
    /\ UNCHANGED <<mode, accessVars, searchVars, chunkVars, ingestVars, queryVars,
                   content, max_length, citation_in, citation_ref, doc_text, citations,
                   extraVars>>

NextSnippet == CallHighlightSnippet

SpecSnippet == InitSnippet /\ [][NextSnippet]_vars

\* the index of the full stop of the last sentence boundary (a full stop
\* followed by a space) inside a text, -1 when it has none
LastSentenceBoundary(str) == RFind(str, <<".", " ">>)

\* the index of the last space inside a text, -1 when it has none
LastWordBoundary(str) == RFind(str, <<" ">>)

\* C18 as stated: content unchanged when its length is at most max_length;
\* otherwise the first max_length characters cut after the last sentence
\* boundary when that boundary is at or after the midpoint max_length / 2;
\* failing that, cut before the last word boundary and followed by an
\* ellipsis; failing that, followed by an ellipsis.
C18_Snippet_Original ==
    (mode = "snippet" /\ op = "highlight_snippet") =>
        LET head == Slice(content, max_length) IN
        snippet = Some(
            IF Len(content) <= max_length THEN content
            ELSE IF LastSentenceBoundary(head) # -1
                    /\ LastSentenceBoundary(head) >= max_length \div 2
                 THEN Slice(head, LastSentenceBoundary(head) + 1)
            ELSE IF LastWordBoundary(head) # -1
                 THEN Slice(head, LastWordBoundary(head)) \o Ellipsis
            ELSE head \o Ellipsis)

\* C18 amended: the rule is applied to the content stripped of leading and
\* trailing white space, and the sentence boundary is taken only when the
\* index of its full stop is greater than max_length // 2 (strictly after the
\* midpoint).  For 400 characters, max_length 300 and the boundary at
\* character 180 the snippet is the first 180 characters.
C18_Snippet ==
    (mode = "snippet" /\ op = "highlight_snippet") =>
        LET stripped == Strip(content)
            head == Slice(stripped, max_length)
        IN /\ snippet = Some(
                 IF Len(stripped) <= max_length THEN stripped
                 ELSE IF LastSentenceBoundary(head) > max_length \div 2
                      THEN Slice(head, LastSentenceBoundary(head) + 1)
                 ELSE IF LastWordBoundary(head) # -1
                      THEN Slice(head, LastWordBoundary(head)) \o Ellipsis
                 ELSE head \o Ellipsis)
           /\ (content = Example400 /\ max_length = 300) =>
                 snippet = Some(SubSeq(content, 1, 180))

C18_Witness ==
    /\ mode = "snippet" /\ op = "highlight_snippet"
    /\ Len(content) = 400 /\ max_length = 300
    /\ LastSentenceBoundary(Slice(content, max_length)) = 179
    /\ snippet = Some(SubSeq(content, 1, 180))

----------------------------------------------------------------------------
(* search/service.py: format_citation_ref.  A string is the sequence of    *)
(* its characters; "PILCROW" is the paragraph sign.                        *)

MaxTypeLen == 3

Lowercase == <<"a", "b", "c", "d", "e", "h", "i", "k", "l", "n", "o", "p", "r",
          "s", "t", "u", "v", "w", "x">>

Uppercase == <<"A", "B", "C", "D", "E", "H", "I", "K", "L", "N", "O", "P", "R",
          "S", "T", "U", "V", "W", "X">>

IsLower(c) == \E k \in 1..Len(Lowercase) : Lowercase[k] = c

IsUpper(c) == \E k \in 1..Len(Uppercase) : Uppercase[k] = c

\* str.upper() / str.lower() of one character
Upper(c) == IF IsLower(c) THEN Uppercase[CHOOSE k \in 1..Len(Lowercase) : Lowercase[k] = c] ELSE c

Lower(c) == IF IsUpper(c) THEN Lowercase[CHOOSE k \in 1..Len(Uppercase) : Uppercase[k] = c] ELSE c

RECURSIVE TitleFrom(_, _, _)
\* str.title(): a cased character is upper-cased when the character before
\* it is not cased, lower-cased otherwise; other characters are kept
TitleFrom(str, i, previous_is_cased) ==
    IF i > Len(str) THEN <<>>
    ELSE IF IsLower(str[i])
         THEN <<IF previous_is_cased THEN str[i] ELSE Upper(str[i])>>
                  \o TitleFrom(str, i + 1, TRUE)
    ELSE IF IsUpper(str[i])
         THEN <<IF previous_is_cased THEN Lower(str[i]) ELSE str[i]>>
                  \o TitleFrom(str, i + 1, TRUE)
    ELSE <<str[i]>> \o TitleFrom(str, i + 1, FALSE)

Title(str) == TitleFrom(str, 1, FALSE)

Digits == <<"0", "1", "2", "3", "4", "5", "6", "7", "8", "9">>

RECURSIVE Decimal(_)
\* str(n) for n >= 0, as the f-string renders page_number
Decimal(n) ==
    IF n < 10 THEN <<Digits[n + 1]>> ELSE Decimal(n \div 10) \o <<Digits[(n % 10) + 1]>>

TypeDecision == <<"d", "e", "c", "i", "s", "i", "o", "n">>

TypeTranscript == <<"t", "r", "a", "n", "s", "c", "r", "i", "p", "t">>

TypeEvidence == <<"e", "v", "i", "d", "e", "n", "c", "e">>

TypeProcedural == <<"p", "r", "o", "c", "e", "d", "u", "r", "a", "l">>

TypeNotice == <<"n", "o", "t", "i", "c", "e">>

TypeUnknown == <<"u", "n", "k", "n", "o", "w", "n">>

DisplayDecision == <<"D", "e", "c", "i", "s", "i", "o", "n">>

DisplayTranscript == <<"T", "r", "a", "n", "s", "c", "r", "i", "p", "t">>

DisplayExhibit == <<"E", "x", "h", "i", "b", "i", "t">>

DisplayProceduralOrder == <<"P", "r", "o", "c", "e", "d", "u", "r", "a", "l", " ", "O", "r",
          "d", "e", "r">>

DisplayNotice == <<"N", "o", "t", "i", "c", "e">>

\* mutant: the lookup is skipped and every type is title-cased
DisplayNameTitleOnly(document_type) == Title(document_type)

\* lines 40-46: {...}.get(document_type, document_type.title())
DisplayName(document_type) ==
    IF document_type = TypeDecision THEN DisplayDecision
    ELSE IF document_type = TypeTranscript THEN DisplayTranscript
    ELSE IF document_type = TypeEvidence THEN DisplayExhibit
    ELSE IF document_type = TypeProcedural THEN DisplayProceduralOrder
    ELSE IF document_type = TypeNotice THEN DisplayNotice
    ELSE Title(document_type)

ProceedingPrefix == <<"P", "r", "o", "c", "e", "e", "d", "i", "n", "g", " ">>

FormatCitationRef(proceeding_id, document_type, page_number, paragraph_number, abaer_citation) ==
    LET citation == IF Truthy(abaer_citation) THEN abaer_citation[1]
                    ELSE ProceedingPrefix \o proceeding_id \o <<",", " ">>
                            \o DisplayName(document_type)
        paged == citation \o <<",", " ", "p", ".">> \o Decimal(page_number)
    IN IF Truthy(paragraph_number)
       THEN paged \o <<",", " ", "PILCROW">> \o paragraph_number[1]
       ELSE paged

TypeChars == {"a", "N", "_"}

DocumentTypes ==
    {TypeDecision, TypeTranscript, TypeEvidence, TypeProcedural, TypeNotice, TypeUnknown}
        \cup UNION {[1..n -> TypeChars] : n \in 0..MaxTypeLen}

CitationProceedingIds == {<<>>, <<"4", "4", "9">>, TypeUnknown}

PageNumbers == {1, 47, 100}

ParagraphNumbers == {None, Some(<<>>), Some(<<"1", "5", "6">>)}

AbaerCitations == {None, Some(<<>>), Some(<<"2", "0", "2", "4", "-", "A", "B", "A", "E", "R", "-", "0", "0", "1">>)}

InitCitation ==
    /\ mode = "citation"
    /\ op = "none"
    /\ otherIdle
    /\ SnippetIdle /\ ExtractIdle
    /\ citation_in \in [proceeding_id : CitationProceedingIds,
                        document_type : DocumentTypes,
                        page_number : PageNumbers,
                        paragraph_number : ParagraphNumbers,
                        abaer_citation : AbaerCitations]
    /\ citation_ref = None

CallFormatCitationRef ==
    /\ mode = "citation" /\ op = "none"
    /\ op' = "format_citation_ref"
    /\ citation_ref' = Some(FormatCitationRef(citation_in.proceeding_id,
                                              citation_in.document_type,
                                              citation_in.page_number,
                                              citation_in.paragraph_number,
                                              citation_in.abaer_citation))
    /\ UNCHANGED <<mode, accessVars, searchVars, chunkVars, ingestVars, queryVars,
                   content, max_length, snippet, citation_in, doc_text, citations,
                   extraVars>>

NextCitation == CallFormatCitationRef

SpecCitation == InitCitation /\ [][NextCitation]_vars

\* a value that is there: not None and not the empty string
Exists(opt) == opt # None /\ opt # Some(<<>>)

\* the characters of a type, each upper-cased at the start of a word (after
\* a character that is not a letter) and lower-cased inside one
TitleCased(str) ==
    [i \in 1..Len(str) |->
        IF i = 1 \/ ~(IsLower(str[i - 1]) \/ IsUpper(str[i - 1]))
        THEN Upper(str[i]) ELSE Lower(str[i])]

----------------------------------------------------------------------------
(* scripts/ingest-documents.py: extract_regulatory_citations.  A text is    *)
(* a sequence of atoms: a digit, a full stop, a comma, a space, the letter  *)
(* "s", or a whole word ("REDA", "reda", "Directive", ...; "x" is any word  *)
(* no pattern names).  The patterns are matched on the atoms with the       *)
(* greedy, backtracking, leftmost-first search of re.findall.               *)

MaxTokens == 4

\* one element of a pattern: the atoms it accepts and how many of them
One(atoms) == [atoms |-> atoms, least |-> 1, most |-> 1]

Optional(atoms) == [atoms |-> atoms, least |-> 0, most |-> 1]

Star(atoms) == [atoms |-> atoms, least |-> 0, most |-> -1]

Plus(atoms) == [atoms |-> atoms, least |-> 1, most |-> -1]

\* a word under re.IGNORECASE: the casings of it that texts are built from
AnyCase(upper, lower) == {upper, lower}

WhiteSpace == {" "}

DigitAtoms == {"0", "1", "2", "3", "4", "5", "6", "7", "8", "9"}

\* s\.?\s*\d+
SectionOfStatute ==
    <<One(AnyCase("S", "s")), Optional({"."}), Star(WhiteSpace), Plus(DigitAtoms)>>

\* the head of a legislation pattern: the words of the statute, \s+ after each
StatuteWords(words) ==
    IF Len(words) = 1 THEN <<One(words[1]), Plus(WhiteSpace)>>
    ELSE IF Len(words) = 2
         THEN <<One(words[1]), Plus(WhiteSpace), One(words[2]), Plus(WhiteSpace)>>
    ELSE <<One(words[1]), Plus(WhiteSpace), One(words[2]), Plus(WhiteSpace),
           One(words[3]), Plus(WhiteSpace)>>

Act == AnyCase("Act", "act")

Statutes ==
    << <<AnyCase("REDA", "reda")>>,
       <<AnyCase("EPEA", "epea")>>,
       <<AnyCase("OGCA", "ogca")>>,
       <<AnyCase("Pipeline", "pipeline"), Act>>,
       <<AnyCase("Water", "water"), Act>>,
       <<AnyCase("Public", "public"), AnyCase("Lands", "lands"), Act>> >>

\* lines 86-93
LegislationPatterns ==
    [k \in 1..Len(Statutes) |-> StatuteWords(Statutes[k]) \o SectionOfStatute]

\* Directive\s+0?\d+
DirectiveNumber ==
    <<One(AnyCase("Directive", "directive")), Plus(WhiteSpace), Optional({"0"}),
      Plus(DigitAtoms)>>

\* \s+s\.?\s*[\d\.]+
SectionOfDirective ==
    <<Plus(WhiteSpace), One(AnyCase("S", "s")), Optional({"."}), Star(WhiteSpace),
      Plus(DigitAtoms \cup {"."})>>

\* lines 96-99
DirectivePatterns == <<DirectiveNumber, DirectiveNumber \o SectionOfDirective>>

\* how many atoms from position i on are accepted by the element, at most
Run(element, str, i) ==
    LET stop == {j \in i..Len(str) : str[j] \notin element.atoms}
        run == (IF stop = {} THEN Len(str) + 1 ELSE MinOfSet(stop)) - i
    IN IF element.most # -1 /\ run > element.most THEN element.most ELSE run

RECURSIVE MatchAt(_, _, _, _)
\* the position after the match of pattern elements k.. at position i, each
\* element taking as many atoms as lets the rest match; 0 when none does
MatchAt(pattern, k, str, i) ==
    IF k > Len(pattern) THEN i
    ELSE LET fits == {n \in pattern[k].least..Run(pattern[k], str, i) :
                         MatchAt(pattern, k + 1, str, i + n) # 0}
         IN IF fits = {} THEN 0
            ELSE MatchAt(pattern, k + 1, str, i + MaxOfSet(fits))

RECURSIVE FindAll(_, _, _)
\* re.findall(pattern, text): the matches, left to right, without overlap
FindAll(pattern, str, i) ==
    IF i > Len(str) THEN {}
    ELSE LET end == MatchAt(pattern, 1, str, i) IN
         IF end = 0 THEN FindAll(pattern, str, i + 1)
         ELSE {SubSeq(str, i, end - 1)} \cup FindAll(pattern, str, end)

\* lines 101-105: the set of the matches of every pattern
ExtractRegulatoryCitations(str) ==
    LET patterns == LegislationPatterns \o DirectivePatterns IN
    UNION {FindAll(patterns[k], str, 1) : k \in 1..Len(patterns)}

\* the words and numbers texts are built from
TextTokens ==
    { <<"REDA">>, <<"reda">>, <<"Directive">>, <<"s", ".">>, <<"s">>,
      <<"3", "4">>, <<"0", "5", "6">>, <<"2", ".", "1">>, <<"x">> }

RECURSIVE JoinTokens(_)
\* the tokens with one space between them
JoinTokens(tokens) ==
    IF tokens = <<>> THEN <<>>
    ELSE IF Len(tokens) = 1 THEN tokens[1]
    ELSE tokens[1] \o <<" ">> \o JoinTokens(Tail(tokens))

Texts == {JoinTokens(t) : t \in UNION {[1..n -> TextTokens] : n \in 0..MaxTokens}}

\* "Under REDA s. 34 and Directive 056 s. 2.1, the panel finds"
ExampleText ==
    <<"x", " ", "REDA", " ", "s", ".", " ", "3", "4", " ", "x", " ", "Directive", " ",
      "0", "5", "6", " ", "s", ".", " ", "2", ".", "1", ",", " ", "x">>

InitExtract ==
    /\ mode = "extract"
    /\ op = "none"
    /\ otherIdle
    /\ SnippetIdle /\ CitationIdle
    /\ doc_text \in Texts \cup {ExampleText}
    /\ citations = None

CallExtractRegulatoryCitations ==
    /\ mode = "extract" /\ op = "none"
    /\ op' = "extract_regulatory_citations"
    /\ citations' = Some(ExtractRegulatoryCitations(doc_text))
    /\ UNCHANGED <<mode, accessVars, searchVars, chunkVars, ingestVars, queryVars,
                   content, max_length, snippet, citation_in, citation_ref, doc_text,
                   extraVars>>

NextExtract == CallExtractRegulatoryCitations

SpecExtract == InitExtract /\ [][NextExtract]_vars

\* the citation of a family that starts at position i: its longest form, the
\* one with the section token when the text has it; 0 when none starts there
CitationEnd(bare, section, str, i) ==
    IF MatchAt(bare \o section, 1, str, i) # 0 THEN MatchAt(bare \o section, 1, str, i)
    ELSE MatchAt(bare, 1, str, i)

RECURSIVE CitationsOf(_, _, _, _)
\* the citations of a family occurring in a text
CitationsOf(bare, section, str, i) ==
    IF i > Len(str) THEN {}
    ELSE LET end == CitationEnd(bare, section, str, i) IN
         IF end = 0 THEN CitationsOf(bare, section, str, i + 1)
         ELSE {SubSeq(str, i, end - 1)} \cup CitationsOf(bare, section, str, end)

\* a statute abbreviation alone
StatuteName(words) ==
    LET head == StatuteWords(words) IN SubSeq(head, 1, Len(head) - 1)

\* the citations occurring in a text: a statute abbreviation with its
\* optional section token, a directive number with its optional section token
CitationsIn(str) ==
    UNION ({CitationsOf(StatuteName(Statutes[k]), <<Plus(WhiteSpace)>> \o SectionOfStatute,
                        str, 1) : k \in 1..Len(Statutes)}
           \cup {CitationsOf(DirectiveNumber, SectionOfDirective, str, 1)})

\* C20: extract_regulatory_citations returns exactly the set of the
\* citations occurring in the text, one entry per distinct citation (a
\* statute abbreviation or a directive number, each with its optional
\* section token, in any letter case); the example text gives exactly
\* {'REDA s. 34', 'Directive 056 s. 2.1'}; a text without a citation gives
\* the empty result.
C20_ExactCitations ==
    (mode = "extract" /\ op = "extract_regulatory_citations") =>
        /\ citations = Some(CitationsIn(doc_text))
        /\ doc_text = ExampleText =>
              citations = Some({ <<"REDA", " ", "s", ".", " ", "3", "4">>,
                                 <<"Directive", " ", "0", "5", "6", " ", "s", ".", " ",
                                   "2", ".", "1">> })

----------------------------------------------------------------------------
(* scripts/ingest-documents.py: extract_paragraph_numbers.  A text is a    *)
(* sequence of characters; "x" stands for any character that is neither a  *)
(* bracket nor a digit.                                                    *)

MaxMarkerLen == 6

\* \[(\d+)\]
MarkerPattern == <<One({"["}), Plus(DigitAtoms), One({"]"})>>

RECURSIVE FindGroups(_, _, _)
\* re.findall with one group: the text of the group of every match, left to
\* right, without overlap; the group is the match without its first and last
\* character
FindGroups(pattern, str, i) ==
    IF i > Len(str) THEN <<>>
    ELSE LET end == MatchAt(pattern, 1, str, i) IN
         IF end = 0 THEN FindGroups(pattern, str, i + 1)
         ELSE <<SubSeq(str, i + 1, end - 2)>> \o FindGroups(pattern, str, end)

\* lines 76-78
ExtractParagraphNumbers(str) == FindGroups(MarkerPattern, str, 1)

MarkerChars == {"[", "]", "1", "2", "x"}

MarkerTexts == UNION {[1..n -> MarkerChars] : n \in 0..MaxMarkerLen}

\* "[12] text [13] more"
ExampleMarkerText ==
    <<"[", "1", "2", "]", " ", "x", " ", "[", "1", "3", "]", " ", "x">>

InitMarkers ==
    /\ mode = "markers"
    /\ op = "none"
    /\ AccessIdle /\ SearchIdle /\ ChunkerIdle /\ IngestIdle /\ QueryIdle /\ TextIdle
    /\ AuthIdle /\ MetadataIdle
    /\ marker_text \in MarkerTexts \cup {ExampleMarkerText}
    /\ marker_list = None

CallExtractParagraphNumbers ==
    /\ mode = "markers" /\ op = "none"
    /\ op' = "extract_paragraph_numbers"
    /\ marker_list' = Some(ExtractParagraphNumbers(marker_text))
    /\ UNCHANGED <<mode, accessVars, searchVars, chunkVars, ingestVars, queryVars,
                   textVars, marker_text, authVars, metadata>>

NextMarkers == CallExtractParagraphNumbers

\* the two uses of paragraph markers: the function on its own, and chunk_text
\* labelling its chunks
InitParagraphNumbers == InitMarkers \/ InitChunk

NextParagraphNumbers == NextMarkers \/ NextChunk

SpecParagraphNumbers == InitParagraphNumbers /\ [][NextParagraphNumbers]_vars

\* the positions of the opening brackets of the bracket-delimited integers
MarkerStarts(str) ==
    {i \in 1..Len(str) :
        /\ str[i] = "["
        /\ \E j \in (i + 2)..Len(str) :
              /\ str[j] = "]"
              /\ \A k \in (i + 1)..(j - 1) : str[k] \in DigitAtoms}

\* the integer of the marker that opens at position i, as written
MarkerAt(str, i) ==
    LET close == MinOfSet({j \in (i + 1)..Len(str) : str[j] = "]"}) IN
    SubSeq(str, i + 1, close - 1)

RECURSIVE Ascending(_)
\* the numbers of a set, smallest first
Ascending(set) ==
    IF set = {} THEN <<>>
    ELSE <<MinOfSet(set)>> \o Ascending(set \ {MinOfSet(set)})

\* the bracket-delimited integers of a text in document order
MarkersIn(str) ==
    LET starts == Ascending(MarkerStarts(str)) IN
    [k \in 1..Len(starts) |-> MarkerAt(str, starts[k])]

\* the marker of the first sentence of a chunk's content that holds one
FirstMarker(c) ==
    LET w == Words(c.content)
        held == {k \in 1..Len(w) : w[k].mark # 0}
    IN IF held = {} THEN None ELSE Some(w[MinOfSet(held)].mark)

----------------------------------------------------------------------------
(* auth/__init__.py: get_current_user.  The request is what the dependency *)
(* reads of it: the X-Demo-Role header, the bearer credentials HTTPBearer   *)
(* found (auto_error = False: None when there are none) and                *)
(* request.state.user_claims, which the middleware of main.py sets from    *)
(* the X-MS-CLIENT-PRINCIPAL header.                                       *)

PartyOfDemoIntervener == <<"Crowsnest", "Pass", "Residents", "Association">>

\* lines 28-61
DEMO_USERS ==
    [Hearing_Panel |-> [roles |-> {"Hearing_Panel"}, party_affiliation |-> None],
     Staff |-> [roles |-> {"Staff"}, party_affiliation |-> None],
     Intervener |-> [roles |-> {"Intervener"},
                     party_affiliation |-> Some(PartyOfDemoIntervener)],
     Public |-> [roles |-> {}, party_affiliation |-> None]]

\* return <claims>
Returned(claims) == [ended |-> "returned", claims |-> Some(claims), status |-> 0, code |-> ""]

\* raise HTTPException(status_code, detail = {"code": code, ...})
RaisedHTTP(status, code) == [ended |-> "HTTPException", claims |-> None, status |-> status, code |-> code]

\* DEMO_USERS[key]: the value, or KeyError when the key is absent
Lookup(key) ==
    IF key \in DOMAIN DEMO_USERS THEN Returned(DEMO_USERS[key])
    ELSE [ended |-> "KeyError", claims |-> None, status |-> 0, code |-> ""]

\* os.environ.get("ENVIRONMENT", "development")
EnvironmentOf(env) == IF env.ENVIRONMENT = None THEN "development" ELSE env.ENVIRONMENT[1]

\* a role string that is non-empty and a key of DEMO_USERS
Recognised(role) == role # None /\ role[1] # "" /\ role[1] \in DOMAIN DEMO_USERS

\* lines 64-100
GetCurrentUser(req, env) ==
    IF Recognised(req.x_demo_role) THEN Returned(DEMO_USERS[req.x_demo_role[1]])
    ELSE IF Recognised(env.DEMO_ROLE) THEN Returned(DEMO_USERS[env.DEMO_ROLE[1]])
    ELSE IF req.state_claims # None THEN Returned(req.state_claims[1])
    ELSE IF EnvironmentOf(env) = "development" THEN Lookup("AER_Staff")
    ELSE IF req.credentials = None THEN RaisedHTTP(401, "AUTH_001")
    ELSE Lookup("AER_Staff")

RoleStrings ==
    {None, Some(""), Some("Hearing_Panel"), Some("Staff"), Some("Intervener"),
     Some("Public"), Some("AER_Staff"), Some("Admin")}

\* main.py lines 122-129: the claims the middleware attaches
MiddlewareClaims == [roles |-> {"Staff"}, party_affiliation |-> None]

AuthRequests ==
    [x_demo_role : RoleStrings, credentials : {None, Some("token")},
     state_claims : {None, Some(MiddlewareClaims)}]

Environs == [DEMO_ROLE : RoleStrings, ENVIRONMENT : {None, Some("development"), Some("production")}]

InitAuth ==
    /\ mode = "auth"
    /\ op = "none"
    /\ AccessIdle /\ SearchIdle /\ ChunkerIdle /\ IngestIdle /\ QueryIdle /\ TextIdle
    /\ MarkersIdle /\ MetadataIdle
    /\ environ \in Environs
    /\ auth_request \in AuthRequests
    /\ current_user = NoCurrentUser

CallGetCurrentUser ==
    /\ mode = "auth" /\ op = "none"
    /\ op' = "get_current_user"
    /\ current_user' = GetCurrentUser(auth_request, environ)
    /\ UNCHANGED <<mode, accessVars, searchVars, chunkVars, ingestVars, queryVars,
                   textVars, markerVars, environ, auth_request, metadata>>

NextAuth == CallGetCurrentUser

SpecAuth == InitAuth /\ [][NextAuth]_vars

\* C26: outside the development environment a request without bearer
\* credentials and without middleware-authenticated claims never obtains
\* UserClaims: it is rejected with 401 (AUTH_001), whatever X-Demo-Role header
\* it carries.  (Here with no DEMO_ROLE set on the server either.)
C26_CredentialsRequired ==
    (/\ mode = "auth" /\ op = "get_current_user"
     /\ EnvironmentOf(environ) # "development"
     /\ environ.DEMO_ROLE = None
     /\ auth_request.credentials = None
     /\ auth_request.state_claims = None)
        => /\ current_user.ended = "HTTPException"
           /\ current_user.status = 401
           /\ current_user.code = "AUTH_001"

\* C27: in the development environment a request with no recognised
\* X-Demo-Role header, no recognised DEMO_ROLE and no middleware claims gets
\* the Staff demo user; every call ends by returning UserClaims or by raising
\* the 401 error.
C27_DevelopmentDefault ==
    (mode = "auth" /\ op = "get_current_user") =>
        /\ current_user.ended \in {"returned", "HTTPException"}
        /\ current_user.ended = "HTTPException" => current_user.status = 401
        /\ (/\ EnvironmentOf(environ) = "development"
            /\ ~Recognised(auth_request.x_demo_role)
            /\ ~Recognised(environ.DEMO_ROLE)
            /\ auth_request.state_claims = None)
              => current_user = Returned(DEMO_USERS["Staff"])

----------------------------------------------------------------------------
(* Confidentiality data that is missing or not recognised, from ingestion  *)
(* to the two access decisions.  metadata is the dict process_document     *)
(* holds (get_document_metadata(filename) or {}): its confidentiality_level *)
(* key may be absent, and its value is whatever the metadata file says.    *)

\* a level string outside ConfidentialityLevel
UnrecognisedLevel == "secret"

MetadataLevels == {None} \cup {Some(l) : l \in Levels \cup {UnrecognisedLevel}}

MetadataDicts == [confidentiality_level : MetadataLevels, parties : Rosters]

\* index_chunks lines 268-285: metadata.get("confidentiality_level", "public")
IndexChunk(meta) ==
    Chunk(1,
          IF meta.confidentiality_level = None THEN "public"
          ELSE meta.confidentiality_level[1],
          meta.parties, "unknown", <<"unknown">>, {})

\* models.py DocumentMetadata: confidentiality_level defaults to PUBLIC
DocumentOf(meta) ==
    [confidentiality_level |-> IF meta.confidentiality_level = None THEN "public"
                               ELSE meta.confidentiality_level[1],
     parties |-> meta.parties]

InitLevel ==
    /\ mode = "level"
    /\ op = "none"
    /\ user_claims \in ClaimsDomain
    /\ metadata \in {Some(m) : m \in MetadataDicts}
    /\ document = [confidentiality_level |-> "public", parties |-> {}]
    /\ access = FALSE
    /\ security_filter = None
    /\ response = NoResponse
    /\ SearchIdle /\ ChunkerIdle /\ IngestIdle /\ QueryIdle /\ TextIdle
    /\ MarkersIdle /\ AuthIdle

levelFixed ==
    <<mode, user_claims, response, request, final_filter, search_response, chunkVars,
      ingestVars, queryVars, textVars, markerVars, authVars, metadata>>

\* ingestion: the chunk of the document reaches the index
LevelIndexChunks ==
    /\ mode = "level" /\ op = "none"
    /\ op' = "index_chunks"
    /\ index' = {IndexChunk(metadata[1])}
    /\ UNCHANGED <<levelFixed, document, access, security_filter>>

\* a search by the requester: the security filter of the request
LevelBuildSearchFilter ==
    /\ mode = "level" /\ op = "index_chunks"
    /\ op' = "build_search_filter"
    /\ security_filter' = BuildSearchFilter(user_claims)
    /\ UNCHANGED <<levelFixed, document, access, index>>

\* the document check of the requester on the document's metadata
LevelCanAccess ==
    /\ mode = "level" /\ op = "build_search_filter"
    /\ op' = "can_access_document"
    /\ document' = DocumentOf(metadata[1])
    /\ access' = CanAccessDocument(user_claims, DocumentOf(metadata[1]))
    /\ UNCHANGED <<levelFixed, security_filter, index>>

NextLevel == LevelIndexChunks \/ LevelBuildSearchFilter \/ LevelCanAccess

SpecLevel == InitLevel /\ [][NextLevel]_vars

\* the level of the metadata is absent or is none of the three levels
LevelMissingOrUnrecognised ==
    \/ metadata[1].confidentiality_level = None
    \/ metadata[1].confidentiality_level[1] \notin Levels

\* the requester could not see the document if it were protected
CannotSeeProtected ==
    /\ "Staff" \notin user_claims.roles
    /\ "Hearing_Panel" \notin user_claims.roles
    /\ ~(/\ Truthy(user_claims.party_affiliation)
         /\ user_claims.party_affiliation[1] \in metadata[1].parties)

\* C28: a document or chunk whose confidentiality level is absent or is not
\* one of the three levels is never visible to a requester who could not see
\* protected material: the chunk is not indexed as public, the security
\* filter excludes it and can_access_document denies the document.
C28_FailClosed ==
    (/\ mode = "level" /\ op = "can_access_document"
     /\ LevelMissingOrUnrecognised
     /\ CannotSeeProtected)
        => /\ \A e \in index : e.confidentialityLevel # "public"
           /\ \A e \in index : EvalFilter(security_filter, e) # "true"
           /\ ~access

====
